---- MODULE Spec2Model ----
(***************************************************************************)
(* Elevator simulation: occupants move between the floors of a building    *)
(* and its elevator cars in discrete time steps.  One time step is the     *)
(* fixed sequence of phases                                                *)
(*   arrivals -> departure sampling -> exchange -> ground-floor egress ->  *)
(*   dispatch -> metering -> bookkeeping.                                  *)
(* Vec<T> is a sequence (index k of the code is index k+1 here), usize     *)
(* floors are naturals, and f64 averages are exact rationals [n, d].       *)
(***************************************************************************)
EXTENDS Integers, Sequences, FiniteSets, TLC

\* ----------------------------------------------------------------- bounds
MaxFloors == 3
MaxElevators == 2
MaxPeople == 2
MaxArrivalsPerStep == 2
MaxSteps == 6
MaxRandomSteps == 2
MaxRandomPeople == 1
MaxFlushLen == 4
MaxScenarioFloors == 4
MaxScenarioSteps == 8
DispatchFloors == 6
MaxDispatchPeople == 3
ProbFloors == 2
MaxProbPeople == 3
NearestFloors == 5
MaxNearestRiders == 2
PairFloors == 4
MaxLoopArrivals == 3
QuietFloors == 3
QuietElevators == 2
QuietPeople == 2
QuietFrom == 4
StarveFloors == 3
StarveSteps == 24

\* the floor index that stands for the result of the usize subtraction 0 - 1
\* (an abort or a wrap to usize::MAX): a value outside every building
Underflow == 0 - 1

VARIABLES
    floors,           \* Building.floors: Vec<Floor>, each floor its Vec<Person>
    elevators,        \* Building.elevators: Vec<Elevator>
    avg_energy,       \* Building.avg_energy
    avg_wait_time,    \* Building.avg_wait_time
    wait_time_denom,  \* Building.wait_time_denom
    floors_to,        \* RandomController.floors_to: Vec<Option<usize>>
    policy,           \* which ElevatorController drives the building
    time_step,        \* the loop index of the step being executed
    pc,               \* the phase of the step that runs next
    people_created,   \* number of Person values constructed so far
    wait_sum,         \* history: sum of the wait times read at alighting
    alighted_count,   \* history: number of people that have alighted
    left_ids,         \* history: ids of the people that left the building
    last_alighted,    \* history: who left an elevator in the last exchange,
                      \*          as they were before the exchange
    last_boarded,     \* history: who entered an elevator in the last exchange,
                      \*          as they were before the exchange
    energy_sum,       \* history: sum of the per-step energies metered
    last_decisions,   \* history: decisions committed by the last dispatch
    config,           \* the configuration the run was constructed from
    dest_prob,        \* Floor.dest_prob of every floor
    moving_steps,     \* history: for every elevator, the number of dispatches
                      \*          in a row that have left it moving
    arrivals          \* the vector arrivals of the arrival loop of main

vars == <<floors, elevators, avg_energy, avg_wait_time, wait_time_denom,
          floors_to, policy, time_step, pc, people_created, wait_sum,
          alighted_count, left_ids, last_alighted, last_boarded, energy_sum,
          last_decisions, config, dest_prob, moving_steps, arrivals>>

\* --------------------------------------------------------------- rationals
RECURSIVE GCD(_, _)
GCD(a, b) == IF b = 0 THEN a ELSE GCD(b, a % b)

Abs(x) == IF x < 0 THEN -x ELSE x

\* the rational n/d in lowest terms with positive denominator
Rat(n, d) ==
    LET g == GCD(Abs(n), Abs(d))
        s == IF d < 0 THEN -1 ELSE 1
    IN  [n |-> (s * n) \div g, d |-> (s * d) \div g]

RInt(k) == [n |-> k, d |-> 1]
RAdd(x, y) == Rat(x.n * y.d + y.n * x.d, x.d * y.d)
RMul(x, y) == Rat(x.n * y.n, x.d * y.d)
RDiv(x, y) == Rat(x.n * y.d, x.d * y.n)
RSub(x, y) == Rat(x.n * y.d - y.n * x.d, x.d * y.d)
RLe(x, y) == x.n * y.d <= y.n * x.d
RMax(x, y) == IF RLe(y, x) /\ x # y THEN x ELSE y

\* ------------------------------------------------------------------ Person
\* person::from: a new person stands on floor 0, off the elevator
\* variant: the new person is already leaving
person_from_leaving(id, floor_to) ==
    [id |-> id, floor_on |-> 0, floor_to |-> floor_to,
     is_on_elevator |-> FALSE, is_leaving |-> TRUE, wait_time |-> 0]

person_from(id, floor_to) ==
    [id |-> id, floor_on |-> 0, floor_to |-> floor_to,
     is_on_elevator |-> FALSE, is_leaving |-> FALSE, wait_time |-> 0]

\* Person::is_waiting
is_waiting(pers) == (pers.floor_on # pers.floor_to) /\ ~pers.is_on_elevator

\* Person::set_on_elevator
set_on_elevator(pers, on_elevator) == [pers EXCEPT !.is_on_elevator = on_elevator]

\* Person::set_floor_on
set_floor_on(pers, new_floor_on) == [pers EXCEPT !.floor_on = new_floor_on]

\* Person::gen_is_leaving: a person already leaving stays as it is; otherwise
\* a true draw marks it leaving and redirects it to floor 0
gen_is_leaving(pers, draw) ==
    IF pers.is_leaving THEN pers
    ELSE IF draw THEN [pers EXCEPT !.is_leaving = TRUE, !.floor_to = 0]
    ELSE pers

\* Person::increment_wait_time
increment_wait_time(pers) == [pers EXCEPT !.wait_time = @ + 1]

\* Person::reset_wait_time
reset_wait_time(pers) == [pers EXCEPT !.wait_time = 0]

\* ------------------------------------------------------ People (Vec<Person>)
\* variant: the aggregate is overwritten by each wait time, not accumulated
People_get_aggregate_wait_time_last(people) ==
    IF people = <<>> THEN 0 ELSE people[Len(people)].wait_time

RECURSIVE People_get_aggregate_wait_time(_)
People_get_aggregate_wait_time(people) ==
    IF people = <<>> THEN 0
    ELSE Head(people).wait_time + People_get_aggregate_wait_time(Tail(people))

People_get_num_people(people) == Len(people)

People_are_people_going_to_floor(people, floor_index) ==
    \E k \in 1..Len(people) : people[k].floor_to = floor_index

People_are_people_waiting(people) ==
    \E k \in 1..Len(people) : people[k].floor_on # people[k].floor_to

People_increment_wait_times(people) ==
    [k \in 1..Len(people) |-> increment_wait_time(people[k])]

\* variant: the wait times are left as they are
People_reset_wait_times_none(people) == people

People_reset_wait_times(people) ==
    [k \in 1..Len(people) |-> reset_wait_time(people[k])]

\* Vec::remove(index) with a 0-based index
VecRemove(v, index) ==
    [k \in 1..(Len(v) - 1) |-> IF k <= index THEN v[k] ELSE v[k + 1]]

\* ------------------------------------------------------------------- Floor
\* Floor::gen_people_leaving: draws is the set of ids whose Bernoulli draw
\* comes out true
\* variant: the outcome of the draw is stored as the person's leaving flag
Floor_gen_people_leaving_store(people, draws) ==
    [k \in 1..Len(people) |->
        IF people[k].floor_on # people[k].floor_to THEN people[k]
        ELSE [gen_is_leaving(people[k], people[k].id \in draws)
                 EXCEPT !.is_leaving = (people[k].id \in draws)]]

\* variant: the people waiting for the elevator are sampled as well
Floor_gen_people_leaving_all(people, draws) ==
    [k \in 1..Len(people) |-> gen_is_leaving(people[k], people[k].id \in draws)]

Floor_gen_people_leaving(people, draws) ==
    [k \in 1..Len(people) |->
        IF people[k].floor_on # people[k].floor_to THEN people[k]
        ELSE gen_is_leaving(people[k], people[k].id \in draws)]

\* Floor::flush_people_entering_elevator, the loop "for i in 0..len" with the
\* running count of removals
RECURSIVE flush_entering_loop(_, _, _, _, _)
flush_entering_loop(people, entering, removals, i, len) ==
    IF i >= len THEN [people |-> people, flushed |-> entering]
    ELSE LET pers == people[(i - removals) + 1]
         IN  IF pers.floor_on = pers.floor_to
             THEN flush_entering_loop(people, entering, removals, i + 1, len)
             ELSE flush_entering_loop(VecRemove(people, i - removals),
                                      Append(entering, pers),
                                      removals + 1, i + 1, len)

\* the accesses people[i - removals] of the loop of
\* Floor::flush_people_entering_elevator, each with the length of the
\* vector at the time of the access
RECURSIVE flush_entering_accesses(_, _, _, _)
flush_entering_accesses(people, removals, i, len) ==
    IF i >= len THEN {}
    ELSE LET index == i - removals
             access == {[index |-> index, len |-> Len(people)]}
         IN  IF index < 0 \/ index >= Len(people) THEN access
             ELSE IF people[index + 1].floor_on = people[index + 1].floor_to
             THEN access \cup flush_entering_accesses(people, removals, i + 1, len)
             ELSE access \cup flush_entering_accesses(VecRemove(people, index),
                                                     removals + 1, i + 1, len)

\* variant loop: the index is not corrected by the number of removals, so
\* the person that follows a removed person is passed over
RECURSIVE flush_entering_loop_skip(_, _, _)
flush_entering_loop_skip(people, entering, i) ==
    IF i >= Len(people) THEN [people |-> people, flushed |-> entering]
    ELSE LET pers == people[i + 1]
         IN  IF pers.floor_on = pers.floor_to
             THEN flush_entering_loop_skip(people, entering, i + 1)
             ELSE flush_entering_loop_skip(VecRemove(people, i),
                                           Append(entering, pers), i + 1)

\* variant: the person after each person removed is passed over
flush_people_entering_elevator_skip(people) ==
    flush_entering_loop_skip(people, <<>>, 0)

\* variant: the waiting people are handed out but also stay on the floor
flush_people_entering_elevator_copy(people) ==
    [people |-> people,
     flushed |-> SelectSeq(people, LAMBDA pers : pers.floor_on # pers.floor_to)]

flush_people_entering_elevator(people) ==
    flush_entering_loop(people, <<>>, 0, 0, Len(people))

\* Floor::flush_people_leaving_floor: retain the people that are not leaving
\* variant: everybody whose destination is floor 0 is removed
flush_people_leaving_floor_dest(people) ==
    SelectSeq(people, LAMBDA pers : pers.floor_to # 0)

flush_people_leaving_floor(people) ==
    SelectSeq(people, LAMBDA pers : ~pers.is_leaving)

\* Extend<Person> for Floor
Floor_extend(people, iter) == people \o iter

\* Floor::increment_wait_times: only the people that are waiting
\* variant: everybody on the floor is incremented, waiting or not
Floor_increment_wait_times_all(people) ==
    [k \in 1..Len(people) |-> increment_wait_time(people[k])]

Floor_increment_wait_times(people) ==
    [k \in 1..Len(people) |->
        IF people[k].floor_on = people[k].floor_to THEN people[k]
        ELSE increment_wait_time(people[k])]

\* ---------------------------------------------------------------- Elevator
\* elevator::from: a new elevator is empty, stopped, on floor 0
elevator_from ==
    [people |-> <<>>, floor_on |-> 0, moving_up |-> FALSE, stopped |-> TRUE]

\* the energy coefficients every elevator is constructed with
energy_up == Rat(5, 1)
energy_down == Rat(5, 2)
energy_coef == Rat(1, 2)

\* Elevator::get_energy_spent
\* variant: the two directions are charged the other way round
get_energy_spent_swapped(elevator) ==
    IF elevator.stopped THEN RInt(0)
    ELSE IF elevator.moving_up
         THEN RAdd(energy_down, RMul(energy_coef, RInt(Len(elevator.people))))
         ELSE RAdd(energy_up, RMul(energy_coef, RInt(Len(elevator.people))))

\* variant: a stopped elevator is charged as well
get_energy_spent_idle(elevator) ==
    IF elevator.moving_up
    THEN RAdd(energy_up, RMul(energy_coef, RInt(Len(elevator.people))))
    ELSE RAdd(energy_down, RMul(energy_coef, RInt(Len(elevator.people))))

get_energy_spent(elevator) ==
    IF elevator.stopped THEN RInt(0)
    ELSE IF elevator.moving_up
         THEN RAdd(energy_up, RMul(energy_coef, RInt(Len(elevator.people))))
         ELSE RAdd(energy_down, RMul(energy_coef, RInt(Len(elevator.people))))

\* variant: nobody aboard is ever found going to the floor
are_people_going_to_floor_never(elevator, floor_index) == FALSE

\* Elevator::are_people_going_to_floor
are_people_going_to_floor(elevator, floor_index) ==
    \E k \in 1..Len(elevator.people) : elevator.people[k].floor_to = floor_index

\* variant: the elevator is advanced whether it is stopped or not
update_floor_ignore_stopped(elevator) ==
    LET new_floor == IF elevator.moving_up THEN elevator.floor_on + 1
                     ELSE IF elevator.floor_on = 0 THEN Underflow
                     ELSE elevator.floor_on - 1
    IN  [elevator EXCEPT
           !.floor_on = new_floor,
           !.people = [k \in 1..Len(elevator.people) |->
                          set_floor_on(elevator.people[k], new_floor)]]

\* variant: the elevator moves but the people aboard keep their floor
update_floor_car_only(elevator) ==
    IF elevator.stopped THEN elevator
    ELSE [elevator EXCEPT
            !.floor_on = IF elevator.moving_up THEN elevator.floor_on + 1
                         ELSE IF elevator.floor_on = 0 THEN Underflow
                         ELSE elevator.floor_on - 1]

\* Elevator::update_floor: a stopped elevator stays; a moving one goes one
\* floor up or down (usize arithmetic) and takes its people along
update_floor(elevator) ==
    IF elevator.stopped THEN elevator
    ELSE LET new_floor == IF elevator.moving_up THEN elevator.floor_on + 1
                          ELSE IF elevator.floor_on = 0 THEN Underflow
                          ELSE elevator.floor_on - 1
         IN  [elevator EXCEPT
                !.floor_on = new_floor,
                !.people = [k \in 1..Len(elevator.people) |->
                               set_floor_on(elevator.people[k], new_floor)]]

\* Elevator::flush_people_leaving_elevator, the loop "for i in 0..len" with
\* the running count of removals
RECURSIVE flush_leaving_loop(_, _, _, _, _)
flush_leaving_loop(people, leaving, removals, i, len) ==
    IF i >= len THEN [people |-> people, flushed |-> leaving]
    ELSE LET pers == people[(i - removals) + 1]
         IN  IF pers.floor_on # pers.floor_to
             THEN flush_leaving_loop(people, leaving, removals, i + 1, len)
             ELSE flush_leaving_loop(VecRemove(people, i - removals),
                                     Append(leaving, set_on_elevator(pers, FALSE)),
                                     removals + 1, i + 1, len)

\* the accesses people[i - removals] of the loop of
\* Elevator::flush_people_leaving_elevator, each with the length of the
\* vector at the time of the access
RECURSIVE flush_leaving_accesses(_, _, _, _)
flush_leaving_accesses(people, removals, i, len) ==
    IF i >= len THEN {}
    ELSE LET index == i - removals
             access == {[index |-> index, len |-> Len(people)]}
         IN  IF index < 0 \/ index >= Len(people) THEN access
             ELSE IF people[index + 1].floor_on # people[index + 1].floor_to
             THEN access \cup flush_leaving_accesses(people, removals, i + 1, len)
             ELSE access \cup flush_leaving_accesses(VecRemove(people, index),
                                                    removals + 1, i + 1, len)

\* variant loop: the index is not corrected by the number of removals, so
\* the person that follows a removed person is passed over
RECURSIVE flush_leaving_loop_skip(_, _, _)
flush_leaving_loop_skip(people, leaving, i) ==
    IF i >= Len(people) THEN [people |-> people, flushed |-> leaving]
    ELSE LET pers == people[i + 1]
         IN  IF pers.floor_on # pers.floor_to
             THEN flush_leaving_loop_skip(people, leaving, i + 1)
             ELSE flush_leaving_loop_skip(VecRemove(people, i),
                                          Append(leaving, set_on_elevator(pers, FALSE)),
                                          i + 1)

\* variant: the person after each person removed is passed over
flush_people_leaving_elevator_skip(people) ==
    flush_leaving_loop_skip(people, <<>>, 0)

\* variant: the people leaving are removed but not handed out
flush_people_leaving_elevator_drop(people) ==
    [people |-> flush_leaving_loop(people, <<>>, 0, 0, Len(people)).people,
     flushed |-> <<>>]

\* variant: nobody leaves the elevator
flush_people_leaving_elevator_none(people) ==
    [people |-> people, flushed |-> <<>>]

flush_people_leaving_elevator(people) ==
    flush_leaving_loop(people, <<>>, 0, 0, Len(people))

\* Extend<Person> for Elevator: the people are pushed as they are
\* variant: the people boarding have their wait times reset
Elevator_extend_reset(people, iter) ==
    people \o [k \in 1..Len(iter) |-> reset_wait_time(iter[k])]

Elevator_extend(people, iter) == people \o iter

\* the nearest destination floor among the people aboard and its distance,
\* distance 0 standing for "none found yet"
RECURSIVE nearest_dest_loop(_, _, _, _)
nearest_dest_loop(people, floor_index, nearest_dest_floor, min_dest_floor_dist) ==
    IF people = <<>> THEN <<nearest_dest_floor, min_dest_floor_dist>>
    ELSE LET dest_floor_index == Head(people).floor_to
             dest_floor_dist == IF floor_index > dest_floor_index
                                THEN floor_index - dest_floor_index
                                ELSE dest_floor_index - floor_index
         IN  IF min_dest_floor_dist = 0 \/ dest_floor_dist < min_dest_floor_dist
             THEN nearest_dest_loop(Tail(people), floor_index,
                                    dest_floor_index, dest_floor_dist)
             ELSE nearest_dest_loop(Tail(people), floor_index,
                                    nearest_dest_floor, min_dest_floor_dist)

\* variant: no destination is ever found
get_nearest_dest_floor_none(elevator) == <<0, 0>>

get_nearest_dest_floor(elevator) ==
    nearest_dest_loop(elevator.people, elevator.floor_on, 0, 0)

\* People::increment_wait_times for Elevator: the people on the elevator
Elevator_increment_wait_times(elevator) ==
    [elevator EXCEPT !.people = People_increment_wait_times(elevator.people)]

\* ------------------------------------------------------------------ Floors
\* Floors::are_people_waiting_on_floor
are_people_waiting_on_floor(fls, floor_index) ==
    People_are_people_waiting(fls[floor_index + 1])

\* Floors::get_nearest_wait_floor, floors visited in index order, distance 0
\* standing for "none found yet"
RECURSIVE nearest_wait_loop(_, _, _, _, _)
nearest_wait_loop(fls, floor_on, i, nearest_wait_floor, min_wait_floor_dist) ==
    IF i >= Len(fls) THEN <<nearest_wait_floor, min_wait_floor_dist>>
    ELSE IF ~People_are_people_waiting(fls[i + 1])
         THEN nearest_wait_loop(fls, floor_on, i + 1,
                                nearest_wait_floor, min_wait_floor_dist)
         ELSE LET wait_floor_dist == IF floor_on > i THEN floor_on - i
                                     ELSE i - floor_on
              IN  IF min_wait_floor_dist = 0 \/ wait_floor_dist < min_wait_floor_dist
                  THEN nearest_wait_loop(fls, floor_on, i + 1, i, wait_floor_dist)
                  ELSE nearest_wait_loop(fls, floor_on, i + 1,
                                         nearest_wait_floor, min_wait_floor_dist)

\* variant: the distances are measured from floor 0
get_nearest_wait_floor_ground(fls, floor_on) == nearest_wait_loop(fls, 0, 0, 0, 0)

get_nearest_wait_floor(fls, floor_on) == nearest_wait_loop(fls, floor_on, 0, 0, 0)

\* Floors::gen_people_leaving
Floors_gen_people_leaving(fls, draws) ==
    [k \in 1..Len(fls) |-> Floor_gen_people_leaving(fls[k], draws)]

\* Floors::flush_first_floor
Floors_flush_first_floor(fls) ==
    [fls EXCEPT ![1] = flush_people_leaving_floor(fls[1])]

\* Floors::increment_wait_times
Floors_increment_wait_times(fls) ==
    [k \in 1..Len(fls) |-> Floor_increment_wait_times(fls[k])]

\* --------------------------------------------------------------- Elevators
\* Elevators::get_energy_spent: the sum over the elevators
RECURSIVE Elevators_get_energy_spent(_)
Elevators_get_energy_spent(elevs) ==
    IF elevs = <<>> THEN RInt(0)
    ELSE RAdd(get_energy_spent(Head(elevs)), Elevators_get_energy_spent(Tail(elevs)))

\* Elevators::increment_wait_times
Elevators_increment_wait_times(elevs) ==
    [k \in 1..Len(elevs) |-> Elevator_increment_wait_times(elevs[k])]

\* ---------------------------------------------------------------- Building
\* Building::from: empty floors, elevators fresh from elevator::from, zero
\* averages
Building_from(num_floors, num_elevators) ==
    [floors |-> [k \in 1..num_floors |-> <<>>],
     elevators |-> [k \in 1..num_elevators |-> elevator_from],
     avg_energy |-> RInt(0),
     avg_wait_time |-> RInt(0),
     wait_time_denom |-> 0]

\* the body of the loop of Building::exchange_people_on_elevator for the
\* elevator at index k of b.elevators
\* variant: the exchange is made for a moving elevator as well
exchange_one_moving(b, k) ==
    LET elevator == b.elevators[k]
        floor_index == elevator.floor_on
        entering == flush_people_entering_elevator(b.floors[floor_index + 1])
        leaving == flush_people_leaving_elevator(elevator.people)
        num_people == People_get_num_people(leaving.flushed)
        tmp_num == RAdd(RInt(People_get_aggregate_wait_time(leaving.flushed)),
                        RMul(b.avg_wait_time, RInt(b.wait_time_denom)))
        tmp_denom == num_people + b.wait_time_denom
    IN  [b EXCEPT
           !.avg_wait_time = IF tmp_denom = 0 THEN RInt(0)
                             ELSE RDiv(tmp_num, RInt(tmp_denom)),
           !.wait_time_denom = @ + num_people,
           !.elevators[k].people = Elevator_extend(leaving.people, entering.flushed),
           !.floors[floor_index + 1] =
               Floor_extend(entering.people,
                            People_reset_wait_times(leaving.flushed))]

exchange_one(b, k) ==
    LET elevator == b.elevators[k] IN
    IF ~elevator.stopped THEN b
    ELSE
    LET floor_index == elevator.floor_on
        entering == flush_people_entering_elevator(b.floors[floor_index + 1])
        leaving == flush_people_leaving_elevator(elevator.people)
        people_leaving_floor == entering.flushed
        people_leaving_elevator == leaving.flushed
        wait_times == People_get_aggregate_wait_time(people_leaving_elevator)
        num_people == People_get_num_people(people_leaving_elevator)
        tmp_num == RAdd(RInt(wait_times),
                        RMul(b.avg_wait_time, RInt(b.wait_time_denom)))
        tmp_denom == num_people + b.wait_time_denom
    IN  [b EXCEPT
           !.avg_wait_time = IF tmp_denom = 0 THEN RInt(0)
                             ELSE RDiv(tmp_num, RInt(tmp_denom)),
           !.wait_time_denom = @ + num_people,
           !.elevators[k].people = Elevator_extend(leaving.people, people_leaving_floor),
           !.floors[floor_index + 1] =
               Floor_extend(entering.people,
                            People_reset_wait_times(people_leaving_elevator))]

\* Building::exchange_people_on_elevator: the elevators in index order
RECURSIVE exchange_loop(_, _)
exchange_loop(b, k) ==
    IF k > Len(b.elevators) THEN b ELSE exchange_loop(exchange_one(b, k), k + 1)

exchange_people_on_elevator(b) == exchange_loop(b, 1)

\* Building::update_average_energy
\* variant: the old average is weighted by the new number of steps
update_average_energy_weight(avg, step, energy_spent) ==
    LET tmp_num == RAdd(RMul(avg, RInt(step + 1)), energy_spent)
        tmp_denom == RInt(step + 1)
    IN  RDiv(tmp_num, tmp_denom)

update_average_energy(avg, step, energy_spent) ==
    LET tmp_num == RAdd(RMul(avg, RInt(step)), energy_spent)
        tmp_denom == RInt(step + 1)
    IN  RDiv(tmp_num, tmp_denom)

\* -------------------------------------------------------------- Controller
\* NearestController::update_elevators, first loop: the decision for one
\* elevator (1 up, -1 down, 0 stop), read from the building as it stands
\* before any elevator is updated
\* variant: a moving elevator does not stop for the people aboard
nearest_decision_pass(elevator, fls) ==
    LET dest == get_nearest_dest_floor(elevator)
        wait == get_nearest_wait_floor(fls, elevator.floor_on)
        current == IF elevator.stopped THEN 0
                   ELSE IF elevator.moving_up THEN 1 ELSE 0 - 1
    IN  IF elevator.stopped
        THEN IF dest[2] # 0
             THEN (IF dest[1] > elevator.floor_on THEN 1 ELSE 0 - 1)
             ELSE IF wait[2] # 0
                  THEN (IF wait[1] > elevator.floor_on THEN 1 ELSE 0 - 1)
                  ELSE current
        ELSE IF ~elevator.moving_up /\ elevator.floor_on = 0 THEN 0
        ELSE IF elevator.moving_up /\ elevator.floor_on = Len(fls) - 1 THEN 0
        ELSE IF are_people_waiting_on_floor(fls, elevator.floor_on) THEN 0
        ELSE current

\* variant: a stopped elevator looks at the waiting floors before its riders
nearest_decision_wait_first(elevator, fls) ==
    LET dest == get_nearest_dest_floor(elevator)
        wait == get_nearest_wait_floor(fls, elevator.floor_on)
        current == IF elevator.stopped THEN 0
                   ELSE IF elevator.moving_up THEN 1 ELSE 0 - 1
    IN  IF elevator.stopped
        THEN IF wait[2] # 0
             THEN (IF wait[1] > elevator.floor_on THEN 1 ELSE 0 - 1)
             ELSE IF dest[2] # 0
                  THEN (IF dest[1] > elevator.floor_on THEN 1 ELSE 0 - 1)
                  ELSE current
        ELSE IF ~elevator.moving_up /\ elevator.floor_on = 0 THEN 0
        ELSE IF elevator.moving_up /\ elevator.floor_on = Len(fls) - 1 THEN 0
        ELSE IF are_people_waiting_on_floor(fls, elevator.floor_on) THEN 0
        ELSE IF are_people_going_to_floor(elevator, elevator.floor_on) THEN 0
        ELSE current

\* variant: a moving elevator does not stop for the people waiting on its floor
nearest_decision_no_wait_stop(elevator, fls) ==
    LET dest == get_nearest_dest_floor(elevator)
        wait == get_nearest_wait_floor(fls, elevator.floor_on)
        current == IF elevator.stopped THEN 0
                   ELSE IF elevator.moving_up THEN 1 ELSE 0 - 1
    IN  IF elevator.stopped
        THEN IF dest[2] # 0
             THEN (IF dest[1] > elevator.floor_on THEN 1 ELSE 0 - 1)
             ELSE IF wait[2] # 0
                  THEN (IF wait[1] > elevator.floor_on THEN 1 ELSE 0 - 1)
                  ELSE current
        ELSE IF ~elevator.moving_up /\ elevator.floor_on = 0 THEN 0
        ELSE IF elevator.moving_up /\ elevator.floor_on = Len(fls) - 1 THEN 0
        ELSE IF are_people_going_to_floor(elevator, elevator.floor_on) THEN 0
        ELSE current

\* variant: an elevator moving up is not stopped on the top floor
nearest_decision_no_top(elevator, fls) ==
    LET dest == get_nearest_dest_floor(elevator)
        wait == get_nearest_wait_floor(fls, elevator.floor_on)
        current == IF elevator.stopped THEN 0
                   ELSE IF elevator.moving_up THEN 1 ELSE 0 - 1
    IN  IF elevator.stopped
        THEN IF dest[2] # 0
             THEN (IF dest[1] > elevator.floor_on THEN 1 ELSE 0 - 1)
             ELSE IF wait[2] # 0
                  THEN (IF wait[1] > elevator.floor_on THEN 1 ELSE 0 - 1)
                  ELSE current
        ELSE IF ~elevator.moving_up /\ elevator.floor_on = 0 THEN 0
        ELSE IF elevator.moving_up /\ elevator.floor_on >= Len(fls) - 1 THEN current
        ELSE IF are_people_waiting_on_floor(fls, elevator.floor_on) THEN 0
        ELSE IF are_people_going_to_floor(elevator, elevator.floor_on) THEN 0
        ELSE current

\* variant: a stopped elevator goes up whenever people wait on a floor above
nearest_decision_up_first(elevator, fls) ==
    LET dest == get_nearest_dest_floor(elevator)
        wait == get_nearest_wait_floor(fls, elevator.floor_on)
        current == IF elevator.stopped THEN 0
                   ELSE IF elevator.moving_up THEN 1 ELSE 0 - 1
    IN  IF elevator.stopped
        THEN IF \E i \in (elevator.floor_on + 1)..(Len(fls) - 1) :
                    are_people_waiting_on_floor(fls, i)
             THEN 1
             ELSE IF dest[2] # 0
                  THEN (IF dest[1] > elevator.floor_on THEN 1 ELSE 0 - 1)
                  ELSE IF wait[2] # 0
                       THEN (IF wait[1] > elevator.floor_on THEN 1 ELSE 0 - 1)
                       ELSE current
        ELSE IF ~elevator.moving_up /\ elevator.floor_on = 0 THEN 0
        ELSE IF elevator.moving_up /\ elevator.floor_on = Len(fls) - 1 THEN 0
        ELSE IF are_people_waiting_on_floor(fls, elevator.floor_on) THEN 0
        ELSE IF are_people_going_to_floor(elevator, elevator.floor_on) THEN 0
        ELSE current

nearest_decision(elevator, fls) ==
    LET dest == get_nearest_dest_floor(elevator)
        wait == get_nearest_wait_floor(fls, elevator.floor_on)
        current == IF elevator.stopped THEN 0
                   ELSE IF elevator.moving_up THEN 1 ELSE 0 - 1
    IN  IF elevator.stopped
        THEN IF dest[2] # 0
             THEN (IF dest[1] > elevator.floor_on THEN 1 ELSE 0 - 1)
             ELSE IF wait[2] # 0
                  THEN (IF wait[1] > elevator.floor_on THEN 1 ELSE 0 - 1)
                  ELSE current
        ELSE IF ~elevator.moving_up /\ elevator.floor_on = 0 THEN 0
        ELSE IF elevator.moving_up /\ elevator.floor_on = Len(fls) - 1 THEN 0
        ELSE IF are_people_waiting_on_floor(fls, elevator.floor_on) THEN 0
        ELSE IF are_people_going_to_floor(elevator, elevator.floor_on) THEN 0
        ELSE current

\* variant: a stopped empty elevator stays where it is when an elevator
\* listed before it is stopped and empty too
nearest_decisions_shared(elevs, fls) ==
    [k \in 1..Len(elevs) |->
        IF /\ elevs[k].stopped /\ elevs[k].people = <<>>
           /\ \E j \in 1..(k - 1) : elevs[j].stopped /\ elevs[j].people = <<>>
        THEN 0
        ELSE nearest_decision(elevs[k], fls)]

\* NearestController::update_elevators, first loop: one decision for each
\* elevator in the order of the vector
nearest_decisions(elevs, fls) ==
    [k \in 1..Len(elevs) |-> nearest_decision(elevs[k], fls)]

\* variant: a decision to stop leaves the stopped flag as it was
commit_decision_no_stop(elevator, decision) ==
    update_floor(
        IF decision > 0
        THEN [elevator EXCEPT !.stopped = FALSE, !.moving_up = TRUE]
        ELSE IF decision < 0
        THEN [elevator EXCEPT !.stopped = FALSE, !.moving_up = FALSE]
        ELSE elevator)

\* NearestController::update_elevators, second loop: commit one decision and
\* update the elevator's floor
commit_decision(elevator, decision) ==
    update_floor(
        IF decision > 0
        THEN [elevator EXCEPT !.stopped = FALSE, !.moving_up = TRUE]
        ELSE IF decision < 0
        THEN [elevator EXCEPT !.stopped = FALSE, !.moving_up = FALSE]
        ELSE [elevator EXCEPT !.stopped = TRUE])

\* RandomController::update_elevators, loop body: floor_to is the pending
\* target or, when there is none, the sample drawn for this elevator
\* variant: an elevator on its destination floor is sent up
random_decision_ge(elevator, floor_to) ==
    IF floor_to >= elevator.floor_on THEN 1
    ELSE 0 - 1

random_decision(elevator, floor_to) ==
    IF floor_to > elevator.floor_on THEN 1
    ELSE IF floor_to < elevator.floor_on THEN 0 - 1
    ELSE 0

None == "None"

\* ------------------------------------------------------------ state views
NumFloors == Len(floors)
NumElevators == Len(elevators)

SeqRange(sq) == {sq[k] : k \in 1..Len(sq)}

\* the people standing on floors, the people aboard elevators, and all
FloorPeople == UNION {SeqRange(floors[k]) : k \in 1..Len(floors)}
CarPeople == UNION {SeqRange(elevators[k].people) : k \in 1..Len(elevators)}
AllPeople == FloorPeople \cup CarPeople
AllIds == {pers.id : pers \in AllPeople}

\* number of entries with the given id in a Vec<Person>
CountId(people, id) == Cardinality({k \in 1..Len(people) : people[k].id = id})

\* the Building value held by the controller
TheBuilding ==
    [floors |-> floors, elevators |-> elevators, avg_energy |-> avg_energy,
     avg_wait_time |-> avg_wait_time, wait_time_denom |-> wait_time_denom]

\* -------------------------------------------------------------------- Init
Init ==
    \E num_floors \in 1..MaxFloors, num_elevators \in 1..MaxElevators :
        LET b == Building_from(num_floors, num_elevators) IN
        /\ floors = b.floors
        /\ elevators = b.elevators
        /\ avg_energy = b.avg_energy
        /\ avg_wait_time = b.avg_wait_time
        /\ wait_time_denom = b.wait_time_denom
        /\ floors_to = [k \in 1..num_elevators |-> None]
        /\ policy \in {"nearest", "random"}
        /\ time_step = 0
        /\ pc = "arrive"
        /\ people_created = 0
        /\ wait_sum = 0
        /\ alighted_count = 0
        /\ left_ids = {}
        /\ last_alighted = {}
        /\ last_boarded = {}
        /\ energy_sum = RInt(0)
        /\ last_decisions = [k \in 1..num_elevators |-> 0]
        /\ config = [num_floors |-> num_floors, num_elevators |-> num_elevators,
                     dst_in |-> "Poisson", p_in |-> 2]
        /\ dest_prob = [k \in 1..Len(floors) |-> RInt(0)]
        /\ arrivals = <<>>
        /\ moving_steps = [k \in 1..Len(elevators) |->
                              IF elevators[k].stopped THEN 0 ELSE 1]

\* ----------------------------------------------------------------- actions
\* the number of steps of a run: the random policy multiplies the states of
\* every step by its samples, so its runs are cut earlier
StepLimit == IF policy = "random" THEN MaxRandomSteps ELSE MaxSteps

\* the number of people created in a run, cut in the same way
PeopleLimit == IF policy = "random" THEN MaxRandomPeople ELSE MaxPeople

\* the destination floors of the people arriving in one step
ArrivalDests ==
    UNION {[1..n -> 0..(NumFloors - 1)] :
              n \in 0..(IF PeopleLimit - people_created < MaxArrivalsPerStep
                        THEN PeopleLimit - people_created
                        ELSE MaxArrivalsPerStep)}

\* Building::gen_people_arriving: the sampled number of people, each with a
\* sampled destination, is appended to floor 0
\* variant: the new people are appended to the last floor
gen_people_arriving_last(fls, dests, first_id) ==
    [fls EXCEPT ![Len(fls)] = Floor_extend(@,
        [k \in 1..Len(dests) |-> person_from(first_id + k, dests[k])])]

gen_people_arriving(fls, dests, first_id) ==
    [fls EXCEPT ![1] = Floor_extend(@,
        [k \in 1..Len(dests) |-> person_from(first_id + k, dests[k])])]

GenPeopleArriving ==
    /\ pc = "arrive"
    /\ time_step < StepLimit
    /\ Len(floors) > 0
    /\ \E dests \in ArrivalDests :
          /\ floors' = gen_people_arriving(floors, dests, people_created)
          /\ people_created' = people_created + Len(dests)
    /\ pc' = "leave"
    /\ UNCHANGED <<config, arrivals, dest_prob, moving_steps, elevators, avg_energy, avg_wait_time, wait_time_denom,
                   floors_to, policy, time_step, wait_sum, alighted_count, left_ids,
                   energy_sum, last_decisions,
                   last_alighted, last_boarded>>

\* the people whose departure draw can change them
Sampled == {pers \in FloorPeople : pers.floor_on = pers.floor_to /\ ~pers.is_leaving}

\* Floors::gen_people_leaving for the building
GenPeopleLeaving ==
    /\ pc = "leave"
    /\ \E draws \in SUBSET {pers.id : pers \in FloorPeople} :
          floors' = Floors_gen_people_leaving(floors, draws)
    /\ pc' = "exchange"
    /\ UNCHANGED <<config, arrivals, dest_prob, moving_steps, elevators, avg_energy, avg_wait_time, wait_time_denom,
                   floors_to, policy, time_step, people_created, wait_sum,
                   alighted_count, left_ids, energy_sum, last_decisions,
                   last_alighted, last_boarded>>

\* sum of the wait times of the people of a set
RECURSIVE SumWait(_)
SumWait(S) ==
    IF S = {} THEN 0
    ELSE LET pers == CHOOSE x \in S : TRUE IN pers.wait_time + SumWait(S \ {pers})

\* Building::exchange_people_on_elevator
Exchange ==
    /\ pc = "exchange"
    /\ LET b == exchange_people_on_elevator(TheBuilding) IN
          /\ floors' = b.floors
          /\ elevators' = b.elevators
          /\ avg_wait_time' = b.avg_wait_time
          /\ wait_time_denom' = b.wait_time_denom
    /\ LET alighting == {pers \in CarPeople : pers.id \in {q.id : q \in FloorPeople'}}
       IN  /\ wait_sum' = wait_sum + SumWait(alighting)
           /\ alighted_count' = alighted_count + Cardinality(alighting)
           /\ last_alighted' = alighting
    /\ last_boarded' = {pers \in FloorPeople : pers.id \in {q.id : q \in CarPeople'}}
    /\ pc' = "egress"
    /\ UNCHANGED <<config, arrivals, dest_prob, moving_steps, avg_energy, floors_to, policy, time_step, people_created,
                   left_ids, energy_sum, last_decisions>>

\* ground-floor egress: floor 0 is flushed when a stopped elevator stands on it
Egress ==
    /\ pc = "egress"
    /\ floors' = IF \E k \in 1..Len(elevators) :
                        elevators[k].stopped /\ elevators[k].floor_on = 0
                 THEN Floors_flush_first_floor(floors)
                 ELSE floors
    /\ left_ids' = left_ids \cup ({pers.id : pers \in FloorPeople} \
                                  {pers.id : pers \in FloorPeople'})
    /\ pc' = "dispatch"
    /\ UNCHANGED <<config, arrivals, dest_prob, moving_steps, elevators, avg_energy, avg_wait_time, wait_time_denom,
                   floors_to, policy, time_step, people_created, wait_sum,
                   alighted_count, energy_sum, last_decisions,
                   last_alighted, last_boarded>>

\* NearestController::update_elevators
NearestUpdateElevators ==
    /\ pc = "dispatch"
    /\ policy = "nearest"
    /\ LET elevator_decisions == nearest_decisions(elevators, floors)
       IN  /\ elevators' = [k \in 1..Len(elevators) |->
                               commit_decision(elevators[k], elevator_decisions[k])]
           /\ last_decisions' = elevator_decisions
           /\ moving_steps' = [k \in 1..Len(elevators) |->
                                  IF elevator_decisions[k] = 0 THEN 0
                                  ELSE moving_steps[k] + 1]
    /\ pc' = "meter"
    /\ UNCHANGED <<config, arrivals, dest_prob, floors, avg_energy, avg_wait_time, wait_time_denom,
                   floors_to, policy, time_step, people_created, wait_sum,
                   alighted_count, left_ids, energy_sum,
                   last_alighted, last_boarded>>

\* RandomController::update_elevators: samples[k] is the floor drawn for
\* elevator k when it has no pending target
RandomUpdateElevators ==
    /\ pc = "dispatch"
    /\ policy = "random"
    /\ \E samples \in [1..Len(elevators) -> 0..(NumFloors - 1)] :
          LET floor_to == [k \in 1..Len(elevators) |->
                              IF floors_to[k] # None THEN floors_to[k]
                              ELSE samples[k]]
              elevator_decisions ==
                  [k \in 1..Len(elevators) |->
                      random_decision(elevators[k], floor_to[k])]
          IN  /\ elevators' = [k \in 1..Len(elevators) |->
                                  commit_decision(elevators[k], elevator_decisions[k])]
              /\ floors_to' = [k \in 1..Len(elevators) |->
                                  IF elevator_decisions[k] = 0 THEN None
                                  ELSE floors_to[k]]
              /\ last_decisions' = elevator_decisions
              /\ moving_steps' = [k \in 1..Len(elevators) |->
                                     IF elevator_decisions[k] = 0 THEN 0
                                     ELSE moving_steps[k] + 1]
    /\ pc' = "meter"
    /\ UNCHANGED <<config, arrivals, dest_prob, floors, avg_energy, avg_wait_time, wait_time_denom,
                   policy, time_step, people_created, wait_sum,
                   alighted_count, left_ids, energy_sum,
                   last_alighted, last_boarded>>

\* metering: the energy spent by all elevators enters the running average
Metering ==
    /\ pc = "meter"
    /\ LET energy_spent == Elevators_get_energy_spent(elevators) IN
          /\ avg_energy' = update_average_energy(avg_energy, time_step, energy_spent)
          /\ energy_sum' = RAdd(energy_sum, energy_spent)
    /\ pc' = "book"
    /\ UNCHANGED <<config, arrivals, dest_prob, moving_steps, floors, elevators, avg_wait_time, wait_time_denom,
                   floors_to, policy, time_step, people_created, wait_sum,
                   alighted_count, left_ids, last_decisions,
                   last_alighted, last_boarded>>

\* bookkeeping: Floors::increment_wait_times for Building, then the next step
Bookkeeping ==
    /\ pc = "book"
    /\ elevators' = Elevators_increment_wait_times(elevators)
    /\ floors' = Floors_increment_wait_times(floors)
    /\ time_step' = time_step + 1
    /\ pc' = "arrive"
    /\ UNCHANGED <<config, arrivals, dest_prob, moving_steps, avg_energy, avg_wait_time, wait_time_denom, floors_to,
                   policy, people_created, wait_sum, alighted_count, left_ids,
                   energy_sum, last_decisions,
                   last_alighted, last_boarded>>

Next ==
    \/ GenPeopleArriving
    \/ GenPeopleLeaving
    \/ Exchange
    \/ Egress
    \/ NearestUpdateElevators
    \/ RandomUpdateElevators
    \/ Metering
    \/ Bookkeeping

Spec == Init /\ [][Next]_vars

\* ------------------------------------------------------------------- types
TypeOK ==
    /\ pc \in {"arrive", "leave", "exchange", "egress", "dispatch", "meter", "book"}
    /\ time_step \in 0..StepLimit
    /\ people_created \in 0..PeopleLimit
    /\ policy \in {"nearest", "random"}

\* ------------------------------------------------------------- containers
\* the places (container, index) at which a person with the given id is held
FloorSlots(id) ==
    UNION {{<<"floor", k, j>> : j \in {i \in 1..Len(floors[k]) : floors[k][i].id = id}} :
              k \in 1..Len(floors)}
CarSlots(id) ==
    UNION {{<<"car", k, j>> :
               j \in {i \in 1..Len(elevators[k].people) : elevators[k].people[i].id = id}} :
              k \in 1..Len(elevators)}
Slots(id) == FloorSlots(id) \cup CarSlots(id)

\* the number of entries over all floors and all elevators
RECURSIVE SumLen(_)
SumLen(sq) == IF sq = <<>> THEN 0 ELSE Len(Head(sq)) + SumLen(Tail(sq))
TotalCount ==
    SumLen(floors) + SumLen([k \in 1..Len(elevators) |-> elevators[k].people])

IdsOnFloor(k) == {pers.id : pers \in SeqRange(floors[k])}
IdsInCar(k) == {pers.id : pers \in SeqRange(elevators[k].people)}

\* the person with the given id, as held in the building
PersonOf(id) == CHOOSE pers \in AllPeople : pers.id = id

\* ------------------------------------------------------------------ claims
\* C1: every occupant that has arrived and has not left the building is held
\* at exactly one place: one entry of one floor or of one elevator, never
\* none and never two.
C1_ExactlyOneContainer ==
    \A id \in (1..people_created) \ left_ids : Cardinality(Slots(id)) = 1

\* C1 witness: right after an exchange with two stopped elevators on the same
\* floor, one person is aboard and another stands on a floor.
C1_Witness ==
    /\ pc = "egress"
    /\ \E k1, k2 \in 1..Len(elevators) :
          /\ k1 # k2
          /\ elevators[k1].stopped /\ elevators[k2].stopped
          /\ elevators[k1].floor_on = elevators[k2].floor_on
    /\ CarPeople # {}
    /\ FloorPeople # {}

\* C2: the population changes only by arrivals (people added, to floor 0
\* only) and by ground-floor egress (people removed, from floor 0 only);
\* departure sampling, exchange, dispatch, metering and bookkeeping neither
\* add nor remove anybody.
C2_PopulationFrame ==
    [][/\ (pc = "arrive") =>
            /\ AllIds \subseteq AllIds'
            /\ (AllIds' \ AllIds) \subseteq IdsOnFloor(1)'
            /\ TotalCount' = TotalCount + Cardinality(AllIds' \ AllIds)
            /\ \A k \in 2..Len(floors) : floors'[k] = floors[k]
            /\ elevators' = elevators
       /\ (pc = "egress") =>
            /\ AllIds' \subseteq AllIds
            /\ (AllIds \ AllIds') \subseteq IdsOnFloor(1)
            /\ TotalCount' = TotalCount - Cardinality(AllIds \ AllIds')
            /\ \A k \in 2..Len(floors) : floors'[k] = floors[k]
            /\ elevators' = elevators
       /\ (pc \in {"leave", "exchange", "dispatch", "meter", "book"}) =>
            /\ AllIds' = AllIds
            /\ TotalCount' = TotalCount
      ]_vars

\* C2 witness: somebody has left through floor 0 while somebody else, who
\* arrived on floor 0, has been taken aboard by an exchange.
C2_Witness ==
    /\ left_ids # {}
    /\ CarPeople # {}
    /\ pc = "dispatch"

\* C3: every person aboard an elevator has the elevator's floor as its
\* current floor, in every state (after boarding and after every move).
C3_RidersOnCarFloor ==
    \A k \in 1..Len(elevators) :
        \A j \in 1..Len(elevators[k].people) :
            elevators[k].people[j].floor_on = elevators[k].floor_on

\* C3 witness: an elevator that has moved away from floor 0 carries people.
C3_Witness ==
    \E k \in 1..Len(elevators) :
        /\ elevators[k].people # <<>>
        /\ elevators[k].floor_on > 0
        /\ ~elevators[k].stopped

\* C4: the riding flag agrees with the container: everybody aboard an
\* elevator has is_on_elevator = TRUE and everybody on a floor has
\* is_on_elevator = FALSE.
C4_RidingFlagAgrees ==
    /\ \A pers \in CarPeople : pers.is_on_elevator
    /\ \A pers \in FloorPeople : ~pers.is_on_elevator

C6_StoppedCarStays ==
    [][(pc = "dispatch") =>
          \A k \in 1..Len(elevators) :
              (last_decisions'[k] = 0 \/ elevators'[k].stopped) =>
                  /\ elevators'[k].floor_on = elevators[k].floor_on
                  /\ elevators'[k].people = elevators[k].people
      ]_vars

\* C6 witness: dispatch has just decided to stop an elevator that stands
\* above floor 0 with people aboard.
C6_Witness ==
    /\ pc = "meter"
    /\ \E k \in 1..Len(elevators) :
          /\ last_decisions[k] = 0
          /\ elevators[k].stopped
          /\ elevators[k].people # <<>>
          /\ elevators[k].floor_on > 0

\* C7: an exchange leaves everybody that alighted in it with wait time 0,
\* and no step ever decreases anybody's wait time except the exchange in
\* which that person alights.
C7_WaitResetOnlyOnAlight ==
    [][/\ (pc = "exchange") =>
            \A q \in FloorPeople' :
                (q.id \in {pers.id : pers \in CarPeople}) => q.wait_time = 0
       /\ \A pers \in AllPeople : \A q \in AllPeople' :
            (q.id = pers.id /\ q.wait_time < pers.wait_time) =>
                /\ pc = "exchange"
                /\ pers \in CarPeople
                /\ q \in FloorPeople'
                /\ q.wait_time = 0
      ]_vars

\* C7 witness: right after an exchange, somebody who alighted in it with a
\* positive wait time stands on a floor with wait time 0.
C7_Witness ==
    /\ pc = "egress"
    /\ \E pers \in last_alighted :
          /\ pers.wait_time > 0
          /\ \E q \in FloorPeople : q.id = pers.id /\ q.wait_time = 0

\* the person with the given id stands on a floor and is waiting there
\* (riding is read off the container: nobody aboard an elevator is waiting)
WaitingNow(id) ==
    \E pers \in FloorPeople : pers.id = id /\ is_waiting(pers)

\* the person with the given id is aboard an elevator
RidingNow(id) == \E pers \in CarPeople : pers.id = id

\* C8 as stated: whenever somebody changes from waiting to not waiting, by
\* boarding or otherwise, the wait time is 0 right after the change.
C8_Original ==
    [][\A id \in AllIds :
          (WaitingNow(id) /\ ~WaitingNow(id)' /\ id \in AllIds')
              => PersonOf(id)'.wait_time = 0
      ]_vars

\* C8 as amended: somebody ceases to wait only by boarding a stopped
\* elevator in the exchange, and boarding keeps the wait time as it was;
\* the wait time is exactly 0 right after somebody alights.
C8_Amended ==
    [][/\ \A id \in AllIds :
            (WaitingNow(id) /\ ~WaitingNow(id)' /\ id \in AllIds') =>
                /\ pc = "exchange"
                /\ RidingNow(id)'
                /\ \E k \in 1..Len(elevators) :
                      /\ elevators[k].stopped
                      /\ id \in IdsInCar(k)'
                      /\ PersonOf(id).floor_on = elevators[k].floor_on
                /\ PersonOf(id)'.wait_time = PersonOf(id).wait_time
       /\ \A id \in AllIds :
            (RidingNow(id) /\ ~RidingNow(id)' /\ id \in AllIds') =>
                PersonOf(id)'.wait_time = 0
      ]_vars

\* C8 witness: right after an exchange, somebody who boarded in it with a
\* positive wait time is aboard with that wait time.
C8_Witness ==
    /\ pc = "egress"
    /\ \E pers \in last_boarded :
          /\ pers.wait_time > 0
          /\ \E q \in CarPeople : q.id = pers.id /\ q.wait_time = pers.wait_time

C10_AverageWaitTime ==
    /\ [](/\ wait_time_denom = alighted_count
          /\ (alighted_count = 0) => (avg_wait_time = RInt(0))
          /\ (alighted_count > 0) => (avg_wait_time = Rat(wait_sum, alighted_count))
          /\ (alighted_count = 1 /\ wait_sum = 3) => (avg_wait_time = RInt(3)))
    /\ [][(pc = "exchange" /\ alighted_count' = alighted_count) =>
             (avg_wait_time' = avg_wait_time /\ wait_time_denom' = wait_time_denom)
         ]_vars

\* C10 witness: the first person to alight has just alighted alone with
\* wait time 3.
C10_Witness ==
    /\ pc = "egress"
    /\ alighted_count = 1
    /\ wait_sum = 3
    /\ \E pers \in last_alighted : pers.wait_time = 3
    /\ Cardinality(last_alighted) = 1

\* the number of steps metered so far
StepsMetered == IF pc = "book" THEN time_step + 1 ELSE time_step

\* C11: after metering steps 0..n-1 the average energy is the sum of the n
\* per-step energies divided by n (0 before the first metering); the
\* divisor step + 1 is never 0; a step in which every elevator is stopped
\* adds 0 to the sum and still counts as a step.
C11_AverageEnergy ==
    /\ [](/\ time_step + 1 > 0
          /\ (StepsMetered = 0) => (avg_energy = RInt(0))
          /\ (StepsMetered > 0) =>
                (avg_energy = RDiv(energy_sum, RInt(StepsMetered))))
    /\ [][(pc = "meter" /\ \A k \in 1..Len(elevators) : elevators[k].stopped) =>
             /\ energy_sum' = energy_sum
             /\ avg_energy' = RDiv(energy_sum, RInt(time_step + 1))
         ]_vars

\* C11 witness: a step in which every elevator is stopped has just been
\* metered after an earlier step that spent energy.
C11_Witness ==
    /\ pc = "book"
    /\ time_step >= 1
    /\ energy_sum # RInt(0)
    /\ \A k \in 1..Len(elevators) : elevators[k].stopped
    /\ avg_energy # energy_sum

\* twice the energy of one elevator, from its stopped flag, its direction
\* and the number of people aboard (energy_up 5, energy_down 2.5, 0.5 each)
TwiceEnergy(elevator) ==
    IF elevator.stopped THEN 0
    ELSE IF elevator.moving_up THEN 10 + Len(elevator.people)
    ELSE 5 + Len(elevator.people)

RECURSIVE TwiceEnergySum(_, _)
TwiceEnergySum(elevs, k) ==
    IF k = 0 THEN 0 ELSE TwiceEnergy(elevs[k]) + TwiceEnergySum(elevs, k - 1)

\* C12: an elevator reports 0 when stopped, energy_up + energy_coef * people
\* when moving up and energy_down + energy_coef * people when moving down,
\* whatever its floor and whoever is aboard; metering reads it without
\* changing any elevator or floor and adds the sum over all elevators to the
\* step's energy; an elevator moving up with 2 people aboard reports 6.
C12_EnergySpent ==
    /\ [](\A k \in 1..Len(elevators) :
            /\ get_energy_spent(elevators[k]) = Rat(TwiceEnergy(elevators[k]), 2)
            /\ (~elevators[k].stopped /\ elevators[k].moving_up
                    /\ Len(elevators[k].people) = 2)
                => (get_energy_spent(elevators[k]) = RInt(6)))
    /\ [][(pc = "meter") =>
             /\ elevators' = elevators
             /\ floors' = floors
             /\ energy_sum' =
                   RAdd(energy_sum,
                        Rat(TwiceEnergySum(elevators, Len(elevators)), 2))
         ]_vars

\* C12 witness: a step has been metered with an elevator moving up with 2
\* people aboard.
C12_Witness ==
    /\ pc = "book"
    /\ \E k \in 1..Len(elevators) :
          /\ ~elevators[k].stopped
          /\ elevators[k].moving_up
          /\ Len(elevators[k].people) = 2
    /\ energy_sum # RInt(0)

\* ------------------------------------------- the two flushes on their own
\* A building of MaxFloors floors with one stopped elevator in which either
\* one floor or the elevator holds an arbitrary arrangement of at most
\* MaxFlushLen people; the exchange's two flushes are applied to it.

\* the arrangements of people standing on (or riding at) the given floor:
\* person k of the arrangement has id k and any destination floor
Arrangements(floor_index) ==
    UNION {{[k \in 1..n |-> set_floor_on(person_from(k, dests[k]), floor_index)] :
               dests \in [1..n -> 0..(MaxFloors - 1)]} : n \in 0..MaxFlushLen}

FlushInit ==
    \E floor_index \in 0..(MaxFloors - 1) :
      \E people \in Arrangements(floor_index) :
        LET b == Building_from(MaxFloors, 1) IN
        /\ pc \in {"drain", "alight"}
        /\ floors = IF pc = "drain"
                    THEN [b.floors EXCEPT ![floor_index + 1] = people]
                    ELSE b.floors
        /\ elevators = <<[elevator_from EXCEPT
                            !.floor_on = floor_index,
                            !.people = IF pc = "alight" THEN people ELSE <<>>]>>
        /\ avg_energy = b.avg_energy
        /\ avg_wait_time = b.avg_wait_time
        /\ wait_time_denom = b.wait_time_denom
        /\ floors_to = <<None>>
        /\ policy = "nearest"
        /\ time_step = 0
        /\ people_created = Len(people)
        /\ wait_sum = 0
        /\ alighted_count = 0
        /\ left_ids = {}
        /\ last_alighted = {}
        /\ last_boarded = {}
        /\ energy_sum = RInt(0)
        /\ last_decisions = <<0>>
        /\ config = [num_floors |-> MaxFloors, num_elevators |-> 1,
                     dst_in |-> "Poisson", p_in |-> 2]
        /\ dest_prob = [k \in 1..Len(floors) |-> RInt(0)]
        /\ arrivals = <<>>
        /\ moving_steps = [k \in 1..Len(elevators) |->
                              IF elevators[k].stopped THEN 0 ELSE 1]

\* Floor::flush_people_entering_elevator on the elevator's floor; the people
\* returned are pushed onto the elevator
DrainBoarding ==
    /\ pc \in {"drain", "drain again"}
    /\ LET floor_index == elevators[1].floor_on
           entering == flush_people_entering_elevator(floors[floor_index + 1])
       IN  /\ floors' = [floors EXCEPT ![floor_index + 1] = entering.people]
           /\ elevators' = [elevators EXCEPT
                              ![1].people = Elevator_extend(@, entering.flushed)]
    /\ pc' = IF pc = "drain" THEN "drain again" ELSE "drained"
    /\ UNCHANGED <<config, arrivals, dest_prob, moving_steps, avg_energy, avg_wait_time, wait_time_denom, floors_to,
                   policy, time_step, people_created, wait_sum,
                   alighted_count, left_ids, last_alighted, last_boarded,
                   energy_sum, last_decisions>>

\* Elevator::flush_people_leaving_elevator; the people returned are pushed
\* onto the elevator's floor
Alight ==
    /\ pc = "alight"
    /\ LET floor_index == elevators[1].floor_on
           leaving == flush_people_leaving_elevator(elevators[1].people)
       IN  /\ elevators' = [elevators EXCEPT ![1].people = leaving.people]
           /\ floors' = [floors EXCEPT
                           ![floor_index + 1] = Floor_extend(@, leaving.flushed)]
    /\ pc' = "alighted"
    /\ UNCHANGED <<config, arrivals, dest_prob, moving_steps, avg_energy, avg_wait_time, wait_time_denom, floors_to,
                   policy, time_step, people_created, wait_sum,
                   alighted_count, left_ids, last_alighted, last_boarded,
                   energy_sum, last_decisions>>

FlushNext ==
    \/ DrainBoarding
    \/ Alight

FlushSpec == FlushInit /\ [][FlushNext]_vars

\* the ids of a sequence of people, in order
IdSeq(people) == [k \in 1..Len(people) |-> people[k].id]

\* C13: the first drain of a floor hands out exactly the people of the floor
\* that are waiting, each once and in order, and leaves exactly the others,
\* whatever the arrangement; every access of the loop is inside the vector;
\* a second drain right after hands out nobody and leaves the floor as it is.
C13_DrainBoarding ==
    [][/\ (pc = "drain") =>
            LET floor_index == elevators[1].floor_on
                before == floors[floor_index + 1]
            IN  /\ elevators'[1].people = SelectSeq(before, is_waiting)
                /\ floors'[floor_index + 1] =
                      SelectSeq(before, LAMBDA pers : ~is_waiting(pers))
                /\ \A access \in flush_entering_accesses(before, 0, 0, Len(before)) :
                      access.index >= 0 /\ access.index < access.len
       /\ (pc = "drain again") => (elevators' = elevators /\ floors' = floors)
      ]_vars

\* C13 witness: both drains have run on a floor where person 1 waited,
\* person 2 did not, and persons 3 and 4 waited one after the other.
C13_Witness ==
    /\ pc = "drained"
    /\ IdSeq(elevators[1].people) = <<1, 3, 4>>
    /\ IdSeq(floors[elevators[1].floor_on + 1]) = <<2>>

\* C14: alighting hands out exactly the people aboard whose destination is
\* the elevator's floor, each once and in order, and leaves exactly the
\* others aboard, whatever the arrangement (runs of people alighting, all,
\* none); every access of the loop is inside the vector.
C14_Alight ==
    [][(pc = "alight") =>
          LET car == elevators[1]
              before == car.people
              leaves(pers) == pers.floor_to = car.floor_on
          IN  /\ IdSeq(floors'[car.floor_on + 1]) = IdSeq(SelectSeq(before, leaves))
              /\ elevators'[1].people =
                    SelectSeq(before, LAMBDA pers : ~leaves(pers))
              /\ \A access \in flush_leaving_accesses(before, 0, 0, Len(before)) :
                    access.index >= 0 /\ access.index < access.len
      ]_vars

\* C14 witness: a run of three people has alighted between two that stay.
C14_Witness ==
    /\ pc = "alighted"
    /\ IdSeq(floors[elevators[1].floor_on + 1]) = <<2, 3, 4>>
    /\ IdSeq(elevators[1].people) = <<1>>

\* C15: departure sampling touches only people that stand on a floor and
\* are not waiting: no step changes the destination or the leaving flag of
\* somebody who is waiting on a floor or aboard an elevator, so the
\* destination is fixed from the start of the wait until the person alights;
\* a destination changes only in the sampling phase.
C15_SamplingOnlyNonWaiting ==
    [][\A id \in AllIds \cap AllIds' :
          /\ (WaitingNow(id) \/ RidingNow(id)) =>
                /\ PersonOf(id)'.floor_to = PersonOf(id).floor_to
                /\ PersonOf(id)'.is_leaving = PersonOf(id).is_leaving
          /\ (PersonOf(id)'.floor_to # PersonOf(id).floor_to
                \/ PersonOf(id)'.is_leaving # PersonOf(id).is_leaving) =>
                /\ pc = "leave"
                /\ PersonOf(id) \in FloorPeople
                /\ PersonOf(id).floor_on = PersonOf(id).floor_to
      ]_vars

\* C15 witness: the sampling phase has just run while somebody who has been
\* waiting on a floor since an earlier step kept a destination other than
\* floor 0, and somebody else was sampled to leave.
C15_Witness ==
    /\ pc = "exchange"
    /\ \E pers \in FloorPeople :
          /\ is_waiting(pers)
          /\ pers.wait_time > 0
          /\ pers.floor_to # 0
          /\ ~pers.is_leaving
    /\ \E pers \in FloorPeople : pers.is_leaving /\ pers.wait_time = 0

\* C16: whoever is leaving has destination floor 0 and, while in the
\* building, stays leaving with destination floor 0 in every later state,
\* whatever the later draws; the sampling phase leaves a person that is not
\* leaving as it is or makes it leaving with destination floor 0, and no
\* step sets any other destination.
C16_LeavingSticky ==
    /\ [](\A pers \in AllPeople : pers.is_leaving => pers.floor_to = 0)
    /\ [][\A id \in AllIds \cap AllIds' :
            LET before == PersonOf(id)
                after == PersonOf(id)'
            IN  /\ before.is_leaving =>
                      (after.is_leaving /\ after.floor_to = 0)
                /\ after.floor_to \in {before.floor_to, 0}
                /\ (pc = "leave" /\ ~before.is_leaving) =>
                      \/ after = before
                      \/ after = [before EXCEPT !.is_leaving = TRUE,
                                                !.floor_to = 0]
         ]_vars

\* C16 witness: in a later step somebody who is already leaving stands on
\* floor 0, where the sampling phase that runs next visits it again.
C16_Witness ==
    /\ pc = "leave"
    /\ time_step >= 1
    /\ \E pers \in FloorPeople :
          /\ pers.is_leaving
          /\ pers.floor_to = 0
          /\ pers.floor_on = 0

\* C17: the egress phase removes from floor 0 exactly the people that are
\* leaving, or nobody, and keeps everybody else where they are; it follows
\* the exchange of the same step, so whoever alighted on floor 0 in that
\* exchange and is leaving is out of the building before dispatch; nobody is
\* ever removed from another floor, from an elevator or in another phase.
C17_Egress ==
    [][/\ (pc = "egress") =>
            /\ elevators' = elevators
            /\ \A k \in 2..Len(floors) : floors'[k] = floors[k]
            /\ \/ floors'[1] = floors[1]
               \/ floors'[1] = SelectSeq(floors[1], LAMBDA pers : ~pers.is_leaving)
            /\ \A pers \in last_alighted :
                  (pers.is_leaving /\ pers.floor_on = 0) => pers.id \notin AllIds'
       /\ \A id \in AllIds \ AllIds' :
            /\ pc = "egress"
            /\ id \in IdsOnFloor(1)
            /\ PersonOf(id).is_leaving
      ]_vars

\* C17 witness: somebody leaving alighted on floor 0 in this step's exchange
\* and the egress has removed them, while somebody who is not leaving was
\* kept on floor 0.
C17_Witness ==
    /\ pc = "dispatch"
    /\ \E pers \in last_alighted :
          /\ pers.is_leaving
          /\ pers.floor_on = 0
          /\ pers.id \in left_ids
          /\ pers.id \notin AllIds
    /\ \E pers \in SeqRange(floors[1]) : ~pers.is_leaving

\* C18: in a building with one floor nobody is ever waiting: everybody is on
\* floor 0 with destination floor 0, nobody is aboard an elevator, every
\* elevator is stopped on floor 0 under both policies and no energy has been
\* spent.
C18_SingleFloor ==
    (NumFloors = 1) =>
        /\ \A pers \in AllPeople :
              pers.floor_on = 0 /\ pers.floor_to = 0 /\ ~is_waiting(pers)
        /\ CarPeople = {}
        /\ \A k \in 1..Len(elevators) :
              /\ elevators[k].stopped
              /\ elevators[k].floor_on = 0
        /\ energy_sum = RInt(0)
        /\ avg_energy = RInt(0)

\* C18 witness: a building with one floor under the random policy has run a
\* whole step and met another dispatch with somebody standing on floor 0.
C18_Witness ==
    /\ NumFloors = 1
    /\ policy = "random"
    /\ pc = "book"
    /\ time_step >= 1
    /\ FloorPeople # {}

\* ------------------------------------------------------------ construction
\* The run is constructed from a configuration: Building::from builds the
\* floors, the elevators and the arrival distribution, then the controller
\* is built from the building, then the first step starts.  p_in is held in
\* tenths.

\* Poisson::new(lambda): an error unless lambda > 0
\* variant: a rate of 0 is accepted
Poisson_new_zero(p_in) == IF p_in >= 0 THEN "Ok" ELSE "Err"

Poisson_new(p_in) == IF p_in > 0 THEN "Ok" ELSE "Err"

\* Bernoulli::new(p): an error unless 0 <= p <= 1
Bernoulli_new(p_in) == IF p_in >= 0 /\ p_in <= 10 THEN "Ok" ELSE "Err"

\* Uniform::new(low, high): aborts unless low < high
Uniform_new(low, high) == IF low < high THEN "Ok" ELSE "Abort"

dst_in_new(cfg) ==
    IF cfg.dst_in = "Poisson" THEN Poisson_new(cfg.p_in) ELSE Bernoulli_new(cfg.p_in)

ArrivalParams == {0 - 1, 0, 2, 10, 11}

Configs ==
    [num_floors : 0..MaxFloors, num_elevators : 1..MaxElevators,
     dst_in : {"Poisson", "Bernoulli"}, p_in : ArrivalParams]

ConstructInit ==
    /\ config \in Configs
    /\ policy \in {"nearest", "random"}
    /\ pc = "construct"
    /\ floors = <<>>
    /\ elevators = <<>>
    /\ floors_to = <<>>
    /\ last_decisions = <<>>
    /\ avg_energy = RInt(0)
    /\ avg_wait_time = RInt(0)
    /\ wait_time_denom = 0
    /\ time_step = 0
    /\ people_created = 0
    /\ wait_sum = 0
    /\ alighted_count = 0
    /\ left_ids = {}
    /\ last_alighted = {}
    /\ last_boarded = {}
    /\ energy_sum = RInt(0)
    /\ dest_prob = <<>>
    /\ arrivals = <<>>
    /\ moving_steps = <<>>

\* Building::from: the unwrap of the arrival distribution aborts the
\* construction on an error; otherwise the building is returned
BuildingFrom ==
    /\ pc = "construct"
    /\ IF dst_in_new(config) = "Err"
       THEN /\ pc' = "rejected"
            /\ UNCHANGED <<floors, elevators, dest_prob>>
       ELSE LET b == Building_from(config.num_floors, config.num_elevators) IN
            /\ floors' = b.floors
            /\ elevators' = b.elevators
            /\ dest_prob' = [k \in 1..Len(b.floors) |-> RInt(0)]
            /\ pc' = "controller"
    /\ UNCHANGED <<config, arrivals, moving_steps, avg_energy, avg_wait_time, wait_time_denom,
                   floors_to, policy, time_step, people_created, wait_sum,
                   alighted_count, left_ids, last_alighted, last_boarded,
                   energy_sum, last_decisions>>

\* RandomController::from builds Uniform::new(0, num_floors) and the vector
\* of destinations; NearestController::from only stores the building
ControllerFrom ==
    /\ pc = "controller"
    /\ IF policy = "random" /\ Uniform_new(0, Len(floors)) = "Abort"
       THEN /\ pc' = "rejected"
            /\ UNCHANGED <<floors_to, last_decisions, moving_steps>>
       ELSE /\ floors_to' = [k \in 1..Len(elevators) |-> None]
            /\ last_decisions' = [k \in 1..Len(elevators) |-> 0]
            /\ moving_steps' = [k \in 1..Len(elevators) |-> 0]
            /\ pc' = "arrive"
    /\ UNCHANGED <<config, arrivals, dest_prob, floors, elevators, avg_energy, avg_wait_time,
                   wait_time_denom, policy, time_step, people_created,
                   wait_sum, alighted_count, left_ids, last_alighted,
                   last_boarded, energy_sum>>

\* Building::gen_people_arriving in a building without floors: person::from
\* aborts in Uniform::new(0, 0), or self.floors[0] is out of bounds
GenPeopleArrivingAborts ==
    /\ pc = "arrive"
    /\ Len(floors) = 0
    /\ pc' = "aborted in step"
    /\ UNCHANGED <<config, arrivals, dest_prob, moving_steps, floors, elevators, avg_energy, avg_wait_time,
                   wait_time_denom, floors_to, policy, time_step,
                   people_created, wait_sum, alighted_count, left_ids,
                   last_alighted, last_boarded, energy_sum, last_decisions>>

ConstructNext ==
    \/ BuildingFrom
    \/ ControllerFrom
    \/ GenPeopleArrivingAborts
    \/ GenPeopleArriving

ConstructSpec == ConstructInit /\ [][ConstructNext]_vars

\* C19: a configuration with zero floors never gets past construction: the
\* run is still being constructed or has been rejected, under both policies.
C19_ZeroFloorsRejected ==
    (config.num_floors = 0) => pc \in {"construct", "controller", "rejected"}

\* C20: with an invalid arrival parameter (Poisson rate <= 0, Bernoulli p
\* outside [0, 1]) the run is rejected at construction: no step starts and
\* no floor, elevator or person ever exists.
C20_InvalidArrivalRejected ==
    ((config.dst_in = "Poisson" /\ config.p_in <= 0)
        \/ (config.dst_in = "Bernoulli" /\ (config.p_in < 0 \/ config.p_in > 10)))
    => /\ pc \in {"construct", "rejected"}
       /\ floors = <<>>
       /\ elevators = <<>>
       /\ people_created = 0

\* C20 witness: a building with floors and a Poisson rate of 0 has been
\* rejected.
C20_Witness ==
    /\ pc = "rejected"
    /\ config.dst_in = "Poisson"
    /\ config.p_in = 0
    /\ config.num_floors >= 1

\* ------------------------------------------------- a single arrival, end to end
\* One elevator under the nearest policy; the draws are fixed so that exactly
\* one person arrives, in step 0, for a floor above floor 0, and no
\* departure draw succeeds.

ScenarioInit ==
    \E num_floors \in 2..MaxScenarioFloors :
        LET b == Building_from(num_floors, 1) IN
        /\ floors = b.floors
        /\ elevators = b.elevators
        /\ avg_energy = b.avg_energy
        /\ avg_wait_time = b.avg_wait_time
        /\ wait_time_denom = b.wait_time_denom
        /\ floors_to = <<None>>
        /\ policy = "nearest"
        /\ time_step = 0
        /\ pc = "arrive"
        /\ people_created = 0
        /\ wait_sum = 0
        /\ alighted_count = 0
        /\ left_ids = {}
        /\ last_alighted = {}
        /\ last_boarded = {}
        /\ energy_sum = RInt(0)
        /\ last_decisions = <<0>>
        /\ config = [num_floors |-> num_floors, num_elevators |-> 1,
                     dst_in |-> "Poisson", p_in |-> 2]
        /\ dest_prob = [k \in 1..Len(floors) |-> RInt(0)]
        /\ arrivals = <<>>
        /\ moving_steps = [k \in 1..Len(elevators) |->
                              IF elevators[k].stopped THEN 0 ELSE 1]

\* Building::gen_people_arriving with the scenario's draws: one arrival in
\* step 0, none afterwards
ScenarioArriving ==
    /\ pc = "arrive"
    /\ time_step < MaxScenarioSteps
    /\ \E dests \in IF time_step = 0
                    THEN {<<floor_to>> : floor_to \in 1..(NumFloors - 1)}
                    ELSE {<<>>} :
          /\ floors' = gen_people_arriving(floors, dests, people_created)
          /\ people_created' = people_created + Len(dests)
    /\ pc' = "leave"
    /\ UNCHANGED <<config, arrivals, dest_prob, moving_steps, elevators, avg_energy, avg_wait_time, wait_time_denom,
                   floors_to, policy, time_step, wait_sum, alighted_count,
                   left_ids, energy_sum, last_decisions, last_alighted,
                   last_boarded>>

\* Floors::gen_people_leaving with the scenario's draws: every draw fails
ScenarioLeaving ==
    /\ pc = "leave"
    /\ floors' = Floors_gen_people_leaving(floors, {})
    /\ pc' = "exchange"
    /\ UNCHANGED <<config, arrivals, dest_prob, moving_steps, elevators, avg_energy, avg_wait_time, wait_time_denom,
                   floors_to, policy, time_step, people_created, wait_sum,
                   alighted_count, left_ids, energy_sum, last_decisions,
                   last_alighted, last_boarded>>

ScenarioNext ==
    \/ ScenarioArriving
    \/ ScenarioLeaving
    \/ Exchange
    \/ Egress
    \/ NearestUpdateElevators
    \/ Metering
    \/ Bookkeeping

ScenarioSpec == ScenarioInit /\ [][ScenarioNext]_vars

\* the phases of a step that follow its exchange, and those that follow its
\* dispatch
AfterExchange == pc \in {"egress", "dispatch", "meter", "book"}
AfterDispatch == pc \in {"meter", "book"}

\* the number of dispatches that have run
Dispatches == IF AfterDispatch THEN time_step + 1 ELSE time_step

\* C21: with one arrival in step 0 for floor d and nothing else, the person
\* boards on floor 0 in step 0; the elevator advances one floor up in each
\* of the first d dispatches and is stopped on floor d by the next one; the
\* person then alights and stays on floor d, not riding, with wait time 0;
\* the elevator never passes floor d and never moves again.  With 4 floors
\* and d = 3 these are exactly 3 advances.
C21_SingleArrival ==
    \A pers \in AllPeople :
        LET d == pers.floor_to
            car == elevators[1]
        IN  /\ pers.id = 1 /\ d \in 1..(NumFloors - 1) /\ ~pers.is_leaving
            /\ car.floor_on = (IF Dispatches < d THEN Dispatches ELSE d)
            /\ car.floor_on <= d
            /\ (Dispatches \in 1..d) => (~car.stopped /\ car.moving_up)
            /\ (Dispatches > d) => car.stopped
            /\ (time_step = 0 /\ AfterExchange) => pers \in CarPeople
            /\ (Dispatches <= d /\ (time_step > 0 \/ AfterExchange))
                  => pers \in CarPeople
            /\ (time_step > d + 1 \/ (time_step = d + 1 /\ AfterExchange)) =>
                  /\ pers \in SeqRange(floors[d + 1])
                  /\ ~pers.is_on_elevator
                  /\ pers.floor_on = d
                  /\ pers.wait_time = 0
                  /\ car.people = <<>>

\* C21 witness: 4 floors, the arrival was for floor 3, and two steps after
\* alighting the person is on floor 3 and the elevator is stopped there.
C21_Witness ==
    /\ NumFloors = 4
    /\ time_step >= 6
    /\ elevators[1].stopped
    /\ elevators[1].floor_on = 3
    /\ \E pers \in SeqRange(floors[4]) :
          pers.floor_to = 3 /\ pers.wait_time = 0 /\ ~pers.is_on_elevator

\* C27: under the random policy a target sampled for an elevator is kept
\* while the elevator travels to it: after a dispatch that sends the
\* elevator moving its target is pending, a pending target is the same after
\* the next dispatch unless the elevator was stopped on it, and so an
\* elevator sent up is never sent down by the next dispatch (nor one sent
\* down sent up) without a stop in between.
C27_RandomTargetKept ==
    [][(pc = "dispatch" /\ policy = "random") =>
          \A k \in 1..Len(elevators) :
              /\ (last_decisions'[k] # 0) => (floors_to'[k] # None)
              /\ (floors_to[k] # None /\ last_decisions'[k] # 0)
                    => (floors_to'[k] = floors_to[k])
              /\ (time_step > 0 /\ last_decisions[k] = 1)
                    => (last_decisions'[k] \in {0, 1})
              /\ (time_step > 0 /\ last_decisions[k] = 0 - 1)
                    => (last_decisions'[k] \in {0, 0 - 1})
      ]_vars

\* the floors on which a stopped elevator stands
StoppedFloors ==
    {elevators[k].floor_on : k \in {j \in 1..Len(elevators) : elevators[j].stopped}}

\* C30: the exchange leaves a moving elevator with exactly the people it
\* had, and leaves a floor on which no stopped elevator stands with exactly
\* the people it had; whoever boards or alights does so at a stopped
\* elevator.
C30_ExchangeOnlyStopped ==
    [][(pc = "exchange") =>
          /\ \A k \in 1..Len(elevators) :
                ~elevators[k].stopped => elevators'[k] = elevators[k]
          /\ \A f \in 0..(NumFloors - 1) :
                (f \notin StoppedFloors) => floors'[f + 1] = floors[f + 1]
          /\ \A k \in 1..Len(elevators) :
                (IdsInCar(k)' # IdsInCar(k)) => elevators[k].stopped
      ]_vars

\* C30 witness: an exchange has just run while a moving elevator stood on a
\* floor without a stopped elevator, with somebody aboard for that floor and
\* somebody waiting on it, and both are where they were.
C30_Witness ==
    /\ pc = "egress"
    /\ \E k \in 1..Len(elevators) :
          LET car == elevators[k] IN
          /\ ~car.stopped
          /\ car.floor_on \notin StoppedFloors
          /\ are_people_going_to_floor(car, car.floor_on)
          /\ People_are_people_waiting(floors[car.floor_on + 1])

\* ------------------------------------------------- the dispatch of a step
\* A step is entered at its exchange with the building in any arrangement a
\* run can have brought about: one elevator on any floor, stopped or having
\* just moved up or down to it, carrying riders for any floors; at most one
\* person waiting on each floor; and possibly a second elevator, stopped
\* and empty on the top floor.

\* the elements of a set of floors in increasing order
RECURSIVE FloorSeq(_)
FloorSeq(S) ==
    IF S = {} THEN <<>>
    ELSE LET m == CHOOSE x \in S : \A y \in S : x <= y
         IN  <<m>> \o FloorSeq(S \ {m})

\* a person who arrived on floor 0 for floor_to and has been carried to
\* floor_on, or who is leaving from a floor above for floor 0
person_on(id, floor_on, floor_to) ==
    [person_from(id, floor_to) EXCEPT !.floor_on = floor_on,
                                      !.is_leaving = (floor_to = 0)]

DispatchInit ==
    \E second \in BOOLEAN,
       floor_on \in 0..(DispatchFloors - 1),
       motion \in {"stopped", "up", "down"},
       dests \in UNION {[1..m -> 0..(DispatchFloors - 1)] : m \in 0..MaxDispatchPeople},
       waiting \in SUBSET (0..(DispatchFloors - 1)) :
        LET b == Building_from(DispatchFloors, IF second THEN 2 ELSE 1)
            wfs == FloorSeq(waiting)
            first == [elevator_from EXCEPT
                        !.floor_on = floor_on,
                        !.stopped = (motion = "stopped"),
                        !.moving_up = (motion = "up"),
                        !.people = [j \in 1..Len(dests) |->
                                       person_on(j, floor_on, dests[j])]]
            other == [elevator_from EXCEPT !.floor_on = DispatchFloors - 1]
        IN
        /\ Len(dests) + Cardinality(waiting) <= MaxDispatchPeople
        /\ (motion = "up") => floor_on >= 1
        /\ (motion = "down") => floor_on <= DispatchFloors - 2
        /\ floors = [k \in 1..DispatchFloors |->
                        IF (k - 1) \in waiting
                        THEN <<person_on(Len(dests) +
                                           (CHOOSE j \in 1..Len(wfs) : wfs[j] = k - 1),
                                         k - 1, IF k = 1 THEN 2 ELSE 0)>>
                        ELSE <<>>]
        /\ elevators = IF second THEN <<first, other>> ELSE <<first>>
        /\ avg_energy = b.avg_energy
        /\ avg_wait_time = b.avg_wait_time
        /\ wait_time_denom = b.wait_time_denom
        /\ floors_to = [k \in 1..Len(b.elevators) |-> None]
        /\ policy = "nearest"
        /\ time_step = 1
        /\ pc = "exchange"
        /\ people_created = Len(dests) + Cardinality(waiting)
        /\ wait_sum = 0
        /\ alighted_count = 0
        /\ left_ids = {}
        /\ last_alighted = {}
        /\ last_boarded = {}
        /\ energy_sum = RInt(0)
        /\ last_decisions = [k \in 1..Len(b.elevators) |-> 0]
        /\ config = [num_floors |-> DispatchFloors,
                     num_elevators |-> Len(b.elevators),
                     dst_in |-> "Poisson", p_in |-> 2]
        /\ dest_prob = [k \in 1..Len(floors) |-> RInt(0)]
        /\ arrivals = <<>>
        /\ moving_steps = [k \in 1..Len(elevators) |->
                              IF elevators[k].stopped THEN 0 ELSE 1]

DispatchNext ==
    \/ Exchange
    \/ Egress
    \/ NearestUpdateElevators

DispatchSpec == DispatchInit /\ [][DispatchNext]_vars

\* the distance between two floors
Dist(a, b) == IF a > b THEN a - b ELSE b - a

\* the floors with somebody waiting
WaitingFloors ==
    {i \in 0..(NumFloors - 1) : are_people_waiting_on_floor(floors, i)}

\* elevator k is set moving in the given direction and goes one floor that
\* way with everybody it has aboard
Advanced(k, up) ==
    /\ ~elevators'[k].stopped
    /\ elevators'[k].moving_up = up
    /\ elevators'[k].floor_on = (IF up THEN elevators[k].floor_on + 1
                                 ELSE elevators[k].floor_on - 1)
    /\ IdsInCar(k)' = IdsInCar(k)

\* elevator k is stopped where it is with everybody it has aboard
Halted(k) ==
    /\ elevators'[k].stopped
    /\ elevators'[k].floor_on = elevators[k].floor_on
    /\ IdsInCar(k)' = IdsInCar(k)

NearestDispatch == pc = "dispatch" /\ policy = "nearest"

\* C22: two elevators under the nearest policy, at least 6 floors, the first
\* stopped on floor 0 where exactly one person, bound for floor 2, waits,
\* the second stopped and empty on a floor above, nobody else waiting: the
\* exchange of the step puts the person aboard the first elevator and
\* leaves the second alone, and the dispatch of the step sets the first
\* elevator moving up to floor 1 while the second stays stopped where it is.
C22_TwoCars ==
    [][/\ ( /\ pc = "exchange" /\ policy = "nearest"
            /\ Len(elevators) = 2 /\ NumFloors >= 6
            /\ elevators[1].stopped /\ elevators[1].floor_on = 0
            /\ elevators[2].stopped /\ elevators[2].people = <<>>
            /\ elevators[2].floor_on >= 1
            /\ WaitingFloors = {0}
            /\ Len(floors[1]) = 1 /\ floors[1][1].floor_to = 2 )
          => /\ floors[1][1].id \in IdsInCar(1)'
             /\ floors[1][1].id \notin IdsOnFloor(1)'
             /\ elevators'[2] = elevators[2]
       /\ ( /\ NearestDispatch
            /\ Len(elevators) = 2 /\ NumFloors >= 6
            /\ elevators[1].stopped /\ elevators[1].floor_on = 0
            /\ elevators[2].stopped /\ elevators[2].people = <<>>
            /\ elevators[2].floor_on >= 1
            /\ WaitingFloors = {}
            /\ \E pers \in last_boarded :
                  pers.floor_to = 2 /\ pers.id \in IdsInCar(1) )
          => /\ Advanced(1, TRUE)
             /\ elevators'[1].floor_on = 1
             /\ elevators'[2] = elevators[2]
             /\ last_decisions' = <<1, 0>>
      ]_vars

\* C22 witness: the step has been made in a 6-floor building: the person for
\* floor 2 who boarded in it rides the first elevator, now moving up on
\* floor 1, and the second elevator is stopped and empty on floor 5.
C22_Witness ==
    /\ pc = "meter" /\ NumFloors = 6 /\ Len(elevators) = 2
    /\ last_decisions = <<1, 0>>
    /\ ~elevators[1].stopped /\ elevators[1].moving_up /\ elevators[1].floor_on = 1
    /\ Len(elevators[1].people) = 1
    /\ elevators[1].people[1].floor_to = 2
    /\ elevators[1].people[1].id \in {pers.id : pers \in last_boarded}
    /\ elevators[2].stopped /\ elevators[2].floor_on = 5 /\ elevators[2].people = <<>>
    /\ WaitingFloors = {}

\* C24: under the nearest policy an elevator that is stopped with somebody
\* aboard at the dispatch is set moving toward a rider's destination at the
\* smallest distance from its floor (up when that destination is above, down
\* otherwise) and goes one floor, whatever floors have people waiting.
C24_RidersDecide ==
    [][NearestDispatch =>
          \A k \in 1..Len(elevators) :
              LET car == elevators[k] IN
              (car.stopped /\ car.people # <<>>) =>
                  \E j \in 1..Len(car.people) :
                      /\ \A i \in 1..Len(car.people) :
                            Dist(car.people[j].floor_to, car.floor_on)
                               <= Dist(car.people[i].floor_to, car.floor_on)
                      /\ Advanced(k, car.people[j].floor_to > car.floor_on)
      ]_vars

\* C24 witness: the only elevator took somebody aboard in the exchange (so it
\* was stopped), and the dispatch sent it up to the destination of one of
\* its two riders, one floor away, although the other rider goes to floor 0
\* and somebody waits on the floor just below the one it left.
C24_Witness ==
    /\ pc = "meter" /\ Len(elevators) = 1 /\ last_boarded # {}
    /\ LET car == elevators[1] IN
          /\ ~car.stopped /\ car.moving_up
          /\ Len(car.people) = 2
          /\ \E i, j \in 1..2 : /\ car.people[i].floor_to = car.floor_on
                                /\ car.people[j].floor_to = 0
          /\ (car.floor_on - 2) \in WaitingFloors

\* C25: under the nearest policy an elevator that is stopped with nobody
\* aboard at the dispatch is, when some floor has somebody waiting, set
\* moving toward a waiting floor at the smallest distance from its floor and
\* goes one floor; when no floor has, it stays stopped on its floor.
C25_EmptyCarSeeksWaiting ==
    [][NearestDispatch =>
          \A k \in 1..Len(elevators) :
              LET car == elevators[k] IN
              (car.stopped /\ car.people = <<>>) =>
                  IF WaitingFloors # {}
                  THEN \E w \in WaitingFloors :
                          /\ \A v \in WaitingFloors :
                                Dist(w, car.floor_on) <= Dist(v, car.floor_on)
                          /\ Advanced(k, w > car.floor_on)
                  ELSE elevators'[k] = elevators[k]
      ]_vars

\* C25 witness: the only elevator let its rider alight in the exchange (so it
\* was stopped) and was empty at the dispatch, which sent it up to the
\* waiting floor next above although another floor further below has
\* somebody waiting too.
C25_Witness ==
    /\ pc = "meter" /\ Len(elevators) = 1 /\ last_alighted # {}
    /\ LET car == elevators[1] IN
          /\ ~car.stopped /\ car.moving_up /\ car.people = <<>>
          /\ car.floor_on \in WaitingFloors
          /\ \E v \in WaitingFloors : v < car.floor_on - 2

\* C26: under the nearest policy an elevator that is moving at the dispatch
\* is stopped where it is when somebody waits on its floor, or a rider's
\* destination is its floor, or it is on the last floor of its direction;
\* otherwise it keeps its direction and goes one floor that way. No step
\* takes an elevator from moving one way to moving the other way.
C26_MovingCar ==
    [][/\ NearestDispatch =>
             \A k \in 1..Len(elevators) :
                 LET car == elevators[k] IN
                 ~car.stopped =>
                     IF \/ are_people_waiting_on_floor(floors, car.floor_on)
                        \/ \E j \in 1..Len(car.people) :
                              car.people[j].floor_to = car.floor_on
                        \/ car.moving_up /\ car.floor_on = NumFloors - 1
                        \/ ~car.moving_up /\ car.floor_on = 0
                     THEN Halted(k)
                     ELSE Advanced(k, car.moving_up)
       /\ \A k \in 1..Len(elevators) :
             (~elevators[k].stopped /\ ~elevators'[k].stopped)
                => elevators'[k].moving_up = elevators[k].moving_up
      ]_vars

\* C26 witness: an elevator stands stopped, by the decision 0 of the
\* dispatch, on a floor between the ends where somebody is still waiting and
\* none of its riders goes: it came to the floor moving and was stopped for
\* the person waiting.
C26_Witness ==
    /\ pc = "meter"
    /\ \E k \in 1..Len(elevators) :
          LET car == elevators[k] IN
          /\ car.stopped /\ last_decisions[k] = 0
          /\ car.floor_on \in 1..(NumFloors - 2)
          /\ car.floor_on \in WaitingFloors
          /\ car.people # <<>>
          /\ ~are_people_going_to_floor(car, car.floor_on)

\* ------------------------------------------- destination probabilities
\* The people of this part carry the field p_out that Floor::get_p_out
\* reads: the probability with which the person decides to leave.
person_with_p_out(id, floor_on, floor_to, p_out) ==
    [id |-> id, floor_on |-> floor_on, floor_to |-> floor_to,
     is_on_elevator |-> FALSE,
     is_leaving |-> (floor_to = 0 /\ floor_on # 0),
     wait_time |-> 0, p_out |-> p_out]

\* variant: the product of the past p_out values themselves
RECURSIVE inverse_p_outs_plain(_)
inverse_p_outs_plain(past_p_outs) ==
    IF past_p_outs = <<>> THEN RInt(1)
    ELSE RMul(inverse_p_outs_plain(SubSeq(past_p_outs, 1, Len(past_p_outs) - 1)),
              past_p_outs[Len(past_p_outs)])

\* Floor::get_p_out, inner loop: the product of (1 - past_p_out) over the
\* p_out values of the people already visited, in the order visited
RECURSIVE inverse_p_outs(_)
inverse_p_outs(past_p_outs) ==
    IF past_p_outs = <<>> THEN RInt(1)
    ELSE RMul(inverse_p_outs(SubSeq(past_p_outs, 1, Len(past_p_outs) - 1)),
              RSub(RInt(1), past_p_outs[Len(past_p_outs)]))

\* Floor::get_p_out, outer loop over the people from index i on
RECURSIVE p_out_loop(_, _, _, _)
p_out_loop(people, i, p_out, past_p_outs) ==
    IF i > Len(people) THEN p_out
    ELSE LET tmp_p_out == RMul(people[i].p_out, inverse_p_outs(past_p_outs))
         IN  p_out_loop(people, i + 1, RAdd(p_out, tmp_p_out),
                        Append(past_p_outs, people[i].p_out))

\* Floor::get_p_out
get_p_out(people) ==
    IF Len(people) = 0 THEN RInt(0)
    ELSE p_out_loop(people, 1, RInt(0), <<>>)

\* Elevator::get_dest_floors
get_dest_floors(elevator) ==
    [k \in 1..Len(elevator.people) |-> elevator.people[k].floor_to]

\* Elevators::get_dest_floors: the destinations of all elevators, each once
RECURSIVE push_new(_, _)
push_new(dest_floors, elevator_dest_floors) ==
    IF elevator_dest_floors = <<>> THEN dest_floors
    ELSE push_new(IF Head(elevator_dest_floors) \in SeqRange(dest_floors)
                  THEN dest_floors
                  ELSE Append(dest_floors, Head(elevator_dest_floors)),
                  Tail(elevator_dest_floors))

RECURSIVE Elevators_get_dest_floors(_)
Elevators_get_dest_floors(elevs) ==
    IF elevs = <<>> THEN <<>>
    ELSE push_new(Elevators_get_dest_floors(SubSeq(elevs, 1, Len(elevs) - 1)),
                  get_dest_floors(elevs[Len(elevs)]))

\* Building::update_dest_probabilities, p_in in tenths
update_dest_probabilities(fls, elevs, p_in) ==
    LET num_floors == Len(fls)
        dest_floors == Elevators_get_dest_floors(elevs)
        people_waiting(i) ==
            LET waiting == IF People_are_people_waiting(fls[i + 1])
                           THEN RInt(1) ELSE RInt(0)
                going == IF i \in SeqRange(dest_floors) THEN RInt(1) ELSE RInt(0)
            IN  RMax(waiting, going)
    IN  [k \in 1..num_floors |->
            IF k - 1 = 0
            THEN RMax(people_waiting(0),
                      RMul(Rat(p_in, 10),
                           RDiv(RSub(RInt(num_floors), RInt(1)), RInt(num_floors))))
            ELSE RMax(people_waiting(k - 1), get_p_out(fls[k]))]

\* the values a person's p_out is drawn from
ProbValues == {Rat(0, 1), Rat(1, 4), Rat(1, 2), Rat(1, 1)}

\* A building whose floor 1 holds up to MaxProbPeople people, each with a
\* p_out of its own and each either settled on the floor or waiting to
\* leave; the elevator stands on floor 0, empty or with one rider for floor 1.
ProbInit ==
    \E m \in 0..MaxProbPeople :
      \E p_outs \in [1..m -> ProbValues], leaving \in [1..m -> BOOLEAN],
         going \in BOOLEAN :
        LET b == Building_from(ProbFloors, 1) IN
        /\ floors = [b.floors EXCEPT ![2] =
                        [j \in 1..m |->
                            person_with_p_out(j, 1, IF leaving[j] THEN 0 ELSE 1,
                                              p_outs[j])]]
        /\ elevators = IF going
                       THEN <<[elevator_from EXCEPT !.people =
                                  <<person_with_p_out(m + 1, 0, 1, Rat(1, 2))>>]>>
                       ELSE b.elevators
        /\ avg_energy = b.avg_energy
        /\ avg_wait_time = b.avg_wait_time
        /\ wait_time_denom = b.wait_time_denom
        /\ floors_to = <<None>>
        /\ policy = "nearest"
        /\ time_step = 0
        /\ pc = "update"
        /\ people_created = m + (IF going THEN 1 ELSE 0)
        /\ wait_sum = 0
        /\ alighted_count = 0
        /\ left_ids = {}
        /\ last_alighted = {}
        /\ last_boarded = {}
        /\ energy_sum = RInt(0)
        /\ last_decisions = <<0>>
        /\ config = [num_floors |-> ProbFloors, num_elevators |-> 1,
                     dst_in |-> "Poisson", p_in |-> 2]
        /\ dest_prob = [k \in 1..ProbFloors |-> RInt(0)]
        /\ arrivals = <<>>
        /\ moving_steps = [k \in 1..Len(elevators) |->
                              IF elevators[k].stopped THEN 0 ELSE 1]

\* Building::update_dest_probabilities
UpdateDestProbabilities ==
    /\ pc = "update"
    /\ dest_prob' = update_dest_probabilities(floors, elevators, config.p_in)
    /\ pc' = "updated"
    /\ UNCHANGED <<config, arrivals, moving_steps, floors, elevators, avg_energy, avg_wait_time,
                   wait_time_denom, floors_to, policy, time_step,
                   people_created, wait_sum, alighted_count, left_ids,
                   last_alighted, last_boarded, energy_sum, last_decisions>>

ProbNext == UpdateDestProbabilities

ProbSpec == ProbInit /\ [][ProbNext]_vars

\* the product of (1 - p_out) over the people
RECURSIVE ComplementProduct(_)
ComplementProduct(people) ==
    IF people = <<>> THEN RInt(1)
    ELSE RMul(RSub(RInt(1), Head(people).p_out), ComplementProduct(Tail(people)))

\* the rearrangements of a sequence
Rearrangements(sq) ==
    {[j \in 1..Len(sq) |-> sq[perm[j]]] :
        perm \in {f \in [1..Len(sq) -> 1..Len(sq)] :
                     \A a, b \in 1..Len(sq) : a # b => f[a] # f[b]}}

\* C23: the composite departure probability of a floor is 1 minus the
\* product of (1 - p) over the p_out of the people on it; it is 0 for an
\* empty floor, lies between 0 and 1 when every p_out does, and is the same
\* for every order in which the people are stored. It is the value
\* update_dest_probabilities stores for a floor above floor 0 when nobody
\* waits on the floor and no rider goes to it.
C23_CompositeDeparture ==
    \A k \in 1..Len(floors) :
        LET people == floors[k]
            p_out == get_p_out(people)
        IN  /\ p_out = RSub(RInt(1), ComplementProduct(people))
            /\ (people = <<>>) => p_out = RInt(0)
            /\ RLe(RInt(0), p_out) /\ RLe(p_out, RInt(1))
            /\ \A other \in Rearrangements(people) : get_p_out(other) = p_out
            /\ ( /\ pc = "updated" /\ k > 1
                 /\ ~People_are_people_waiting(people)
                 /\ \A j \in 1..Len(elevators) :
                       ~are_people_going_to_floor(elevators[j], k - 1) )
               => dest_prob[k] = p_out

\* C23 witness: three settled people with p_out 1/4, 1/2 and 1/2 in some
\* order stand on a floor nobody goes to, and the probability stored for the
\* floor is 13/16.
C23_Witness ==
    /\ pc = "updated"
    /\ \E k \in 2..Len(floors) :
          /\ Len(floors[k]) = 3
          /\ ~People_are_people_waiting(floors[k])
          /\ \E j \in 1..3 : floors[k][j].p_out = Rat(1, 4)
          /\ \A j \in 1..3 : floors[k][j].p_out \in {Rat(1, 4), Rat(1, 2)}
          /\ elevators[1].people = <<>>
          /\ dest_prob[k] = Rat(13, 16)

\* ------------------------------------------------ the nearest searches
\* The two searches of the nearest policy, applied by a dispatch to a
\* stopped elevator on any floor: either the elevator is empty and any set
\* of floors has somebody waiting, or nobody waits and the elevator carries
\* riders for any floors in any order.
NearestInit ==
    \E floor_on \in 0..(NearestFloors - 1),
       dests \in UNION {[1..m -> 0..(NearestFloors - 1)] : m \in 0..MaxNearestRiders},
       waiting \in SUBSET (0..(NearestFloors - 1)) :
        LET b == Building_from(NearestFloors, 1)
            wfs == FloorSeq(waiting)
        IN
        /\ (dests = <<>>) \/ (waiting = {})
        /\ floors = [k \in 1..NearestFloors |->
                        IF (k - 1) \in waiting
                        THEN <<person_on(Len(dests) +
                                           (CHOOSE j \in 1..Len(wfs) : wfs[j] = k - 1),
                                         k - 1, IF k = 1 THEN 2 ELSE 0)>>
                        ELSE <<>>]
        /\ elevators = <<[elevator_from EXCEPT
                            !.floor_on = floor_on,
                            !.people = [j \in 1..Len(dests) |->
                                           person_on(j, floor_on, dests[j])]]>>
        /\ avg_energy = b.avg_energy
        /\ avg_wait_time = b.avg_wait_time
        /\ wait_time_denom = b.wait_time_denom
        /\ floors_to = <<None>>
        /\ policy = "nearest"
        /\ time_step = 1
        /\ pc = "dispatch"
        /\ people_created = Len(dests) + Cardinality(waiting)
        /\ wait_sum = 0
        /\ alighted_count = 0
        /\ left_ids = {}
        /\ last_alighted = {}
        /\ last_boarded = {}
        /\ energy_sum = RInt(0)
        /\ last_decisions = <<0>>
        /\ config = [num_floors |-> NearestFloors, num_elevators |-> 1,
                     dst_in |-> "Poisson", p_in |-> 2]
        /\ dest_prob = [k \in 1..Len(floors) |-> RInt(0)]
        /\ arrivals = <<>>
        /\ moving_steps = [k \in 1..Len(elevators) |->
                              IF elevators[k].stopped THEN 0 ELSE 1]

NearestNext == NearestUpdateElevators

NearestSpec == NearestInit /\ [][NearestNext]_vars

\* C28: the nearest destination found for an elevator is the same for every
\* order in which its riders are stored, equidistant destinations included,
\* and the distance 0 that stands for "none" is returned exactly when nobody
\* is aboard.
C28_RideTargetOrderFree ==
    \A k \in 1..Len(elevators) :
        LET car == elevators[k]
            found == get_nearest_dest_floor(car)
        IN  /\ \A other \in Rearrangements(car.people) :
                  get_nearest_dest_floor([car EXCEPT !.people = other]) = found
            /\ (found[2] = 0) <=> (car.people = <<>>)

\* C29: for every set of waiting floors and every floor f the search
\* returns a waiting floor other than f at the smallest distance from f, the
\* lowest such floor among equidistant ones, with that distance; it returns
\* the distance 0 only when no floor other than f has somebody waiting;
\* whether or not somebody waits on f itself.
C29_NearestWaitFloor ==
    \A k \in 1..Len(elevators) :
        LET f == elevators[k].floor_on
            found == get_nearest_wait_floor(floors, f)
            others == WaitingFloors \ {f}
        IN  /\ (found[2] = 0) => (others = {})
            /\ (found[2] # 0) =>
                  /\ found[1] \in others
                  /\ found[2] = Dist(found[1], f)
                  /\ \A v \in others : found[2] <= Dist(v, f)
                  /\ \A v \in others : (Dist(v, f) = found[2]) => found[1] <= v

\* ------------------------------------------------------ arrivals, floors
\* C31: the people created by gen_people_arriving are appended to floor 0,
\* each on floor 0, off the elevator, with wait time 0, not leaving and with
\* a destination among the floors of the building, and the call changes no
\* other floor, no elevator and nobody who was there before; in every
\* reachable state everybody's floor and destination are floors of the
\* building.
C31_Arrivals ==
    /\ [](\A pers \in AllPeople :
              /\ pers.floor_on \in 0..(NumFloors - 1)
              /\ pers.floor_to \in 0..(NumFloors - 1))
    /\ [][(pc = "arrive") =>
             /\ elevators' = elevators
             /\ \A k \in 2..Len(floors) : floors'[k] = floors[k]
             /\ Len(floors'[1]) >= Len(floors[1])
             /\ SubSeq(floors'[1], 1, Len(floors[1])) = floors[1]
             /\ \A j \in (Len(floors[1]) + 1)..Len(floors'[1]) :
                   LET pers == floors'[1][j] IN
                   /\ pers.floor_on = 0
                   /\ ~pers.is_on_elevator
                   /\ pers.wait_time = 0
                   /\ ~pers.is_leaving
                   /\ pers.floor_to \in 0..(NumFloors - 1)
                   /\ pers.id \notin AllIds
      ]_vars

\* C31 witness: in a later step somebody has just arrived on floor 0 for a
\* floor above while somebody created earlier is in the building.
C31_Witness ==
    /\ pc = "leave" /\ time_step >= 1
    /\ \E pers \in SeqRange(floors[1]) :
          /\ pers.id = people_created /\ pers.floor_to >= 1 /\ pers.wait_time = 0
    /\ \E pers \in AllPeople : pers.id < people_created /\ pers.wait_time > 0

\* C34: when a dispatch begins, the floor of every stopped elevator has
\* nobody waiting and none of its riders goes to that floor; so for a
\* stopped elevator the search among the riders returns distance 0 only
\* when nobody is aboard and the search among the floors returns distance 0
\* only when no floor has somebody waiting.
C34_StoppedCarDrained ==
    (pc = "dispatch") =>
        \A k \in 1..Len(elevators) :
            LET car == elevators[k] IN
            car.stopped =>
                /\ ~are_people_waiting_on_floor(floors, car.floor_on)
                /\ ~are_people_going_to_floor(car, car.floor_on)
                /\ (get_nearest_dest_floor(car)[2] = 0) <=> (car.people = <<>>)
                /\ (get_nearest_wait_floor(floors, car.floor_on)[2] = 0)
                      <=> (WaitingFloors = {})

\* C34 witness: a dispatch begins with a stopped elevator that has riders
\* aboard while some floor has somebody waiting.
C34_Witness ==
    /\ pc = "dispatch"
    /\ WaitingFloors # {}
    /\ \E k \in 1..Len(elevators) :
          elevators[k].stopped /\ elevators[k].people # <<>>

\* C35: everybody held by floor i is on floor i; whoever comes to stand on a
\* floor in an exchange comes onto the floor of their destination.
C35_FloorOfOccupant ==
    /\ [](\A k \in 1..Len(floors) :
              \A pers \in SeqRange(floors[k]) : pers.floor_on = k - 1)
    /\ [][(pc = "exchange") =>
             \A k \in 1..Len(floors) :
                 \A pers \in SeqRange(floors'[k]) :
                     (pers.id \notin IdsOnFloor(k)) => pers.floor_to = k - 1
      ]_vars

\* C35 witness: the exchange has just let somebody alight on a floor above
\* floor 0, where they stand on their destination floor.
C35_Witness ==
    /\ pc = "egress"
    /\ \E k \in 2..Len(floors) :
          \E pers \in SeqRange(floors[k]) :
              /\ pers.id \in {q.id : q \in last_alighted}
              /\ pers.floor_on = k - 1 /\ pers.floor_to = k - 1

\* C36: after a dispatch an elevator is charged a non-zero energy exactly
\* when the dispatch changed its floor; an elevator that was moving and is
\* stopped by the dispatch is charged 0; the energy metered in the step is
\* the sum of these charges.
C36_EnergyIffMoved ==
    [][/\ (pc = "dispatch") =>
             \A k \in 1..Len(elevators) :
                 /\ (get_energy_spent(elevators'[k]) # RInt(0))
                       <=> (elevators'[k].floor_on # elevators[k].floor_on)
                 /\ (~elevators[k].stopped /\ elevators'[k].stopped)
                       => get_energy_spent(elevators'[k]) = RInt(0)
       /\ (pc = "meter") =>
             /\ RSub(energy_sum', energy_sum) = Elevators_get_energy_spent(elevators)
             /\ (energy_sum' # energy_sum)
                   <=> (\E k \in 1..Len(elevators) : last_decisions[k] # 0)
      ]_vars

\* C36 witness: the energy of a step has been metered in which the dispatch
\* stopped an elevator that came moving to the floor of one of its riders,
\* and nothing was added to the energy.
C36_Witness ==
    /\ pc = "book"
    /\ \E k \in 1..Len(elevators) :
          /\ elevators[k].stopped /\ last_decisions[k] = 0
          /\ are_people_going_to_floor(elevators[k], elevators[k].floor_on)
    /\ \A k \in 1..Len(elevators) : last_decisions[k] = 0
    /\ energy_sum # RInt(0)

\* C37: under the nearest policy no elevator is left moving by more than
\* NumFloors - 1 dispatches in a row: an elevator that is moving at the end
\* of a step is stopped at the end of one of the next NumFloors - 1 steps,
\* whoever arrives or leaves.
C37_MovingBounded ==
    (policy = "nearest") =>
        \A k \in 1..Len(elevators) :
            /\ moving_steps[k] <= NumFloors - 1
            /\ (moving_steps[k] > 0) <=> ~elevators[k].stopped

\* C37 witness: in a building of 3 floors an elevator has been left moving
\* by 2 dispatches in a row and the next dispatch has stopped it.
C37_Witness ==
    /\ policy = "nearest" /\ NumFloors = 3
    /\ \E k \in 1..Len(elevators) :
          /\ elevators[k].stopped /\ moving_steps[k] = 0
          /\ elevators[k].floor_on = 2
          /\ pc = "meter" /\ time_step = 2

\* ------------------------------------------------- independence of cars
\* A dispatch begins in a building with two elevators, each on any floor,
\* stopped or having just moved up or down to it, empty or with one rider
\* for the bottom or the top floor, and with somebody waiting on any set of
\* floors on which no stopped elevator stands.
PairCars ==
    {[elevator_from EXCEPT !.floor_on = f, !.stopped = (motion = "stopped"),
                           !.moving_up = (motion = "up"),
                           !.people = [j \in 1..Len(dests) |->
                                          person_on(0, f, dests[j])]] :
        f \in 0..(PairFloors - 1), motion \in {"stopped", "up", "down"},
        dests \in {<<>>, <<0>>, <<PairFloors - 1>>}}

PairInit ==
    \E first \in PairCars, other \in PairCars,
       waiting \in SUBSET (0..(PairFloors - 1)) :
        LET b == Building_from(PairFloors, 2)
            wfs == FloorSeq(waiting)
            number(car, id) ==
                [car EXCEPT !.people = [j \in 1..Len(car.people) |->
                                           [car.people[j] EXCEPT !.id = id]]]
        IN
        /\ \A car \in {first, other} :
              /\ car.moving_up => (car.floor_on >= 1 /\ ~car.stopped)
              /\ (~car.moving_up /\ ~car.stopped) => car.floor_on <= PairFloors - 2
              /\ car.stopped => /\ car.floor_on \notin waiting
                                /\ ~are_people_going_to_floor(car, car.floor_on)
        /\ floors = [k \in 1..PairFloors |->
                        IF (k - 1) \in waiting
                        THEN <<person_on(2 + (CHOOSE j \in 1..Len(wfs) : wfs[j] = k - 1),
                                         k - 1, IF k = 1 THEN 2 ELSE 0)>>
                        ELSE <<>>]
        /\ elevators = <<number(first, 1), number(other, 2)>>
        /\ avg_energy = b.avg_energy
        /\ avg_wait_time = b.avg_wait_time
        /\ wait_time_denom = b.wait_time_denom
        /\ floors_to = <<None, None>>
        /\ policy = "nearest"
        /\ time_step = 1
        /\ pc = "dispatch"
        /\ people_created = 2 + Cardinality(waiting)
        /\ wait_sum = 0
        /\ alighted_count = 0
        /\ left_ids = {}
        /\ last_alighted = {}
        /\ last_boarded = {}
        /\ energy_sum = RInt(0)
        /\ last_decisions = <<0, 0>>
        /\ config = [num_floors |-> PairFloors, num_elevators |-> 2,
                     dst_in |-> "Poisson", p_in |-> 2]
        /\ dest_prob = [k \in 1..Len(floors) |-> RInt(0)]
        /\ arrivals = <<>>
        /\ moving_steps = [k \in 1..Len(elevators) |->
                              IF elevators[k].stopped THEN 0 ELSE 1]

PairNext == NearestUpdateElevators

PairSpec == PairInit /\ [][PairNext]_vars

\* the states another elevator can be in: on any floor, stopped or moving
\* either way, empty or with a rider for the bottom or the top floor
AltCars ==
    {[elevator_from EXCEPT !.floor_on = f, !.stopped = st, !.moving_up = up,
                           !.people = ps] :
        f \in 0..(NumFloors - 1), st \in BOOLEAN, up \in BOOLEAN,
        ps \in {<<>>, <<person_on(0, 0, 0)>>, <<person_on(0, 0, NumFloors - 1)>>}}

\* floors with the same floors waiting and nobody else on them
CanonFloors ==
    [k \in 1..Len(floors) |->
        IF (k - 1) \in WaitingFloors
        THEN <<person_on(0, k - 1, IF k = 1 THEN 1 ELSE 0)>>
        ELSE <<>>]

LoopParams == {0, 2, 5, 10}

\* the number of floors of the single-elevator program
main_num_floors == 4

ArrivalLoopInit ==
    \E p_in \in LoopParams :
        LET b == Building_from(main_num_floors, 1) IN
        /\ Bernoulli_new(p_in) = "Ok"
        /\ floors = b.floors
        /\ elevators = b.elevators
        /\ avg_energy = b.avg_energy
        /\ avg_wait_time = b.avg_wait_time
        /\ wait_time_denom = b.wait_time_denom
        /\ floors_to = <<None>>
        /\ policy = "nearest"
        /\ time_step = 0
        /\ pc = "sample"
        /\ people_created = 0
        /\ wait_sum = 0
        /\ alighted_count = 0
        /\ left_ids = {}
        /\ last_alighted = {}
        /\ last_boarded = {}
        /\ energy_sum = RInt(0)
        /\ last_decisions = <<0>>
        /\ config = [num_floors |-> main_num_floors, num_elevators |-> 1,
                     dst_in |-> "Bernoulli", p_in |-> p_in]
        /\ dest_prob = [k \in 1..Len(floors) |-> RInt(0)]
        /\ arrivals = <<>>
        /\ moving_steps = <<0>>

\* the loop condition is sampled and is a success, which the distribution
\* allows when p_in > 0: the body of the loop runs next
SampleArrival ==
    /\ pc = "sample"
    /\ config.p_in > 0
    /\ pc' = "push"
    /\ UNCHANGED <<config, arrivals, floors, elevators, avg_energy, avg_wait_time,
                   wait_time_denom, floors_to, policy, time_step, people_created,
                   wait_sum, alighted_count, left_ids, last_alighted,
                   last_boarded, energy_sum, last_decisions, dest_prob,
                   moving_steps>>

\* the body of the loop: a new person is pushed and the condition is sampled
\* again; the vector is recorded up to MaxLoopArrivals people
PushArrival ==
    /\ pc = "push"
    /\ IF Len(arrivals) < MaxLoopArrivals
       THEN /\ \E floor_to \in 0..(NumFloors - 1) :
                  arrivals' = Append(arrivals,
                                     person_from(people_created + 1, floor_to))
            /\ people_created' = people_created + 1
       ELSE UNCHANGED <<arrivals, people_created>>
    /\ pc' = "sample"
    /\ UNCHANGED <<config, floors, elevators, avg_energy, avg_wait_time,
                   wait_time_denom, floors_to, policy, time_step, wait_sum,
                   alighted_count, left_ids, last_alighted, last_boarded,
                   energy_sum, last_decisions, dest_prob, moving_steps>>

\* the sample is a failure, which the distribution allows when p_in < 1: the
\* loop ends
SampleStops ==
    /\ pc = "sample"
    /\ config.p_in < 10
    /\ pc' = "extend"
    /\ UNCHANGED <<config, arrivals, floors, elevators, avg_energy, avg_wait_time,
                   wait_time_denom, floors_to, policy, time_step, people_created,
                   wait_sum, alighted_count, left_ids, last_alighted,
                   last_boarded, energy_sum, last_decisions, dest_prob,
                   moving_steps>>

\* floors[0].extend(arrivals)
ExtendFirstFloor ==
    /\ pc = "extend"
    /\ floors' = [floors EXCEPT ![1] = Floor_extend(@, arrivals)]
    /\ arrivals' = <<>>
    /\ pc' = "arrived"
    /\ UNCHANGED <<config, elevators, avg_energy, avg_wait_time,
                   wait_time_denom, floors_to, policy, time_step, people_created,
                   wait_sum, alighted_count, left_ids, last_alighted,
                   last_boarded, energy_sum, last_decisions, dest_prob,
                   moving_steps>>

ArrivalLoopNext ==
    \/ SampleArrival
    \/ PushArrival
    \/ SampleStops
    \/ ExtendFirstFloor

\* a failure of the sample has a positive probability whenever it is
\* possible, so a loop that can end does not go on for ever
ArrivalLoopSpec ==
    /\ ArrivalLoopInit
    /\ [][ArrivalLoopNext]_vars
    /\ WF_vars(ArrivalLoopNext)
    /\ SF_vars(SampleStops)

\* C39: for every parameter from 0 to 1, 1 included, the arrival loop of a
\* step ends and the arrivals, finitely many, are put on floor 0.
C39_ArrivalLoopEnds == <>(pc = "arrived")

\* --------------------------------------------- a run that becomes quiet
\* The nearest policy with one or more elevators; people arrive and departure
\* draws succeed only in the steps before step QuietFrom, in every possible
\* way; from step QuietFrom on nobody arrives and every departure draw
\* fails.  The run is followed for QuietSteps steps.
QuietSteps == QuietFrom + 2 * QuietFloors * QuietPeople + 2

Quiet == time_step >= QuietFrom

QuietInit ==
    \E num_floors \in 2..QuietFloors, num_elevators \in 1..QuietElevators :
        LET b == Building_from(num_floors, num_elevators) IN
        /\ floors = b.floors
        /\ elevators = b.elevators
        /\ avg_energy = b.avg_energy
        /\ avg_wait_time = b.avg_wait_time
        /\ wait_time_denom = b.wait_time_denom
        /\ floors_to = [k \in 1..num_elevators |-> None]
        /\ policy = "nearest"
        /\ time_step = 0
        /\ pc = "arrive"
        /\ people_created = 0
        /\ wait_sum = 0
        /\ alighted_count = 0
        /\ left_ids = {}
        /\ last_alighted = {}
        /\ last_boarded = {}
        /\ energy_sum = RInt(0)
        /\ last_decisions = [k \in 1..num_elevators |-> 0]
        /\ config = [num_floors |-> num_floors, num_elevators |-> num_elevators,
                     dst_in |-> "Poisson", p_in |-> 2]
        /\ dest_prob = [k \in 1..Len(floors) |-> RInt(0)]
        /\ arrivals = <<>>
        /\ moving_steps = [k \in 1..Len(elevators) |->
                              IF elevators[k].stopped THEN 0 ELSE 1]

\* the destination floors of the people arriving in one step of the run
QuietArrivalDests ==
    IF Quiet THEN {<<>>}
    ELSE UNION {[1..n -> 0..(NumFloors - 1)] :
                   n \in 0..(QuietPeople - people_created)}

\* Building::gen_people_arriving with the draws of the run
QuietArriving ==
    /\ pc = "arrive"
    /\ time_step < QuietSteps
    /\ \E dests \in QuietArrivalDests :
          /\ floors' = gen_people_arriving(floors, dests, people_created)
          /\ people_created' = people_created + Len(dests)
    /\ pc' = "leave"
    /\ UNCHANGED <<config, arrivals, dest_prob, moving_steps, elevators,
                   avg_energy, avg_wait_time, wait_time_denom, floors_to,
                   policy, time_step, wait_sum, alighted_count, left_ids,
                   energy_sum, last_decisions, last_alighted, last_boarded>>

\* Floors::gen_people_leaving with the draws of the run
QuietLeaving ==
    /\ pc = "leave"
    /\ \E draws \in (IF Quiet THEN {{}}
                     ELSE SUBSET {pers.id : pers \in FloorPeople}) :
          floors' = Floors_gen_people_leaving(floors, draws)
    /\ pc' = "exchange"
    /\ UNCHANGED <<config, arrivals, dest_prob, moving_steps, elevators,
                   avg_energy, avg_wait_time, wait_time_denom, floors_to,
                   policy, time_step, people_created, wait_sum,
                   alighted_count, left_ids, energy_sum, last_decisions,
                   last_alighted, last_boarded>>

QuietNext ==
    \/ QuietArriving
    \/ QuietLeaving
    \/ Exchange
    \/ Egress
    \/ NearestUpdateElevators
    \/ Metering
    \/ Bookkeeping

\* the run has been followed for QuietSteps steps
QuietEnded == pc = "arrive" /\ time_step >= QuietSteps

\* Every phase of a step runs when it is its turn: the program is one
\* sequential loop.  This is WF_vars(QuietNext) with its ENABLED written as
\* the state predicate it equals: a phase can run in every state but the
\* one that ends the run.
QuietFairness == (<>[](~QuietEnded)) => ([]<><<QuietNext>>_vars)

QuietSpec == QuietInit /\ [][QuietNext]_vars /\ QuietFairness

\* nobody is aboard an elevator, everybody in the building stands on the
\* floor of their destination, not riding and with wait time 0, and every
\* elevator is stopped
AtRest ==
    /\ \A k \in 1..Len(elevators) :
          elevators[k].stopped /\ elevators[k].people = <<>>
    /\ \A pers \in FloorPeople :
          /\ pers.floor_on = pers.floor_to
          /\ ~pers.is_on_elevator
          /\ pers.wait_time = 0
    /\ \A i \in 1..Len(floors) : \A j \in 1..Len(floors[i]) :
          floors[i][j].floor_on = i - 1

\* C38: under the nearest policy, once nobody arrives any more and no
\* departure draw succeeds any more, there is a step from which on everybody
\* who was waiting or riding stands on the floor of their destination, not
\* riding and with wait time 0 (or has left the building from floor 0), and
\* every elevator is stopped for ever; with one elevator and with several.
C38_ComesToRest == <>[](Quiet /\ AtRest)

\* C38 witness: the run of two elevators has been followed to its end and is
\* at rest; before it became quiet somebody rode up, alighted, was drawn to
\* depart, and has been carried down and out of the building, and somebody
\* else stands on an upper floor.
C38_Witness ==
    /\ QuietEnded
    /\ AtRest
    /\ Len(elevators) = 2
    /\ alighted_count >= 3
    /\ left_ids # {}
    /\ \E pers \in FloorPeople : pers.floor_on > 0 /\ pers.id \notin left_ids

\* ------------------------------------------ a run with a starved person
\* One elevator under the nearest policy in a building of three or more
\* floors, with these draws: in step 0 one person arrives for the top floor
\* (its id is 1); in every later step one person arrives for floor 1;
\* everybody delivered to floor 1 is drawn to depart in the next step; the
\* person on the top floor is drawn to depart once the elevator carries
\* people down from floor 1.
StarveInit ==
    \E num_floors \in 3..StarveFloors :
        LET b == Building_from(num_floors, 1) IN
        /\ floors = b.floors
        /\ elevators = b.elevators
        /\ avg_energy = b.avg_energy
        /\ avg_wait_time = b.avg_wait_time
        /\ wait_time_denom = b.wait_time_denom
        /\ floors_to = <<None>>
        /\ policy = "nearest"
        /\ time_step = 0
        /\ pc = "arrive"
        /\ people_created = 0
        /\ wait_sum = 0
        /\ alighted_count = 0
        /\ left_ids = {}
        /\ last_alighted = {}
        /\ last_boarded = {}
        /\ energy_sum = RInt(0)
        /\ last_decisions = <<0>>
        /\ config = [num_floors |-> num_floors, num_elevators |-> 1,
                     dst_in |-> "Poisson", p_in |-> 2]
        /\ dest_prob = [k \in 1..Len(floors) |-> RInt(0)]
        /\ arrivals = <<>>
        /\ moving_steps = [k \in 1..Len(elevators) |->
                              IF elevators[k].stopped THEN 0 ELSE 1]

\* Building::gen_people_arriving with the draws of the run
StarveArriving ==
    /\ pc = "arrive"
    /\ time_step < StarveSteps
    /\ LET dests == IF time_step = 0 THEN <<NumFloors - 1>> ELSE <<1>> IN
          /\ floors' = gen_people_arriving(floors, dests, people_created)
          /\ people_created' = people_created + Len(dests)
    /\ pc' = "leave"
    /\ UNCHANGED <<config, arrivals, dest_prob, moving_steps, elevators,
                   avg_energy, avg_wait_time, wait_time_denom, floors_to,
                   policy, time_step, wait_sum, alighted_count, left_ids,
                   energy_sum, last_decisions, last_alighted, last_boarded>>

\* the ids whose departure draw succeeds in the run
StarveDraws ==
    {pers.id : pers \in SeqRange(floors[2])}
        \cup (IF \E pers \in CarPeople : pers.floor_to = 0 THEN {1} ELSE {})

\* Floors::gen_people_leaving with the draws of the run
StarveLeaving ==
    /\ pc = "leave"
    /\ floors' = Floors_gen_people_leaving(floors, StarveDraws)
    /\ pc' = "exchange"
    /\ UNCHANGED <<config, arrivals, dest_prob, moving_steps, elevators,
                   avg_energy, avg_wait_time, wait_time_denom, floors_to,
                   policy, time_step, people_created, wait_sum,
                   alighted_count, left_ids, energy_sum, last_decisions,
                   last_alighted, last_boarded>>

StarveNext ==
    \/ StarveArriving
    \/ StarveLeaving
    \/ Exchange
    \/ Egress
    \/ NearestUpdateElevators
    \/ Metering
    \/ Bookkeeping

StarveSpec == StarveInit /\ [][StarveNext]_vars

\* the person of id 1 has been drawn to depart
Starving == \E pers \in AllPeople : pers.id = 1 /\ pers.is_leaving

\* C33: under the nearest policy with continuing arrivals and departures a
\* waiting person can be left waiting for ever: in this run the person of
\* id 1, once waiting on the top floor for floor 0, is on that floor and not
\* aboard in every later state, because the elevator, whenever it is stopped
\* at a dispatch, has riders (for floor 1 when on floor 0, for floor 0 when
\* on floor 1) and serves them, never going above floor 1.
C33_Starved ==
    /\ people_created > 0 => 1 \in AllIds
    /\ 1 \notin left_ids
    /\ Starving =>
          /\ \E j \in 1..Len(floors[NumFloors]) :
                /\ floors[NumFloors][j].id = 1
                /\ floors[NumFloors][j].floor_on = NumFloors - 1
                /\ floors[NumFloors][j].floor_to = 0
                /\ is_waiting(floors[NumFloors][j])
          /\ 1 \notin {pers.id : pers \in CarPeople}
          /\ elevators[1].floor_on <= 1
          /\ (pc = "dispatch" /\ elevators[1].stopped) =>
                /\ elevators[1].people # <<>>
                /\ \A j \in 1..Len(elevators[1].people) :
                      elevators[1].people[j].floor_to = 1 - elevators[1].floor_on
                /\ get_nearest_dest_floor(elevators[1])[2] # 0

\* C33 witness: at the end of the run the person of id 1 is still waiting on
\* the top floor, having waited 8 steps or more, while others were carried
\* between floors 0 and 1 and left the building.
C33_Witness ==
    /\ pc = "arrive"
    /\ time_step = StarveSteps
    /\ \E pers \in SeqRange(floors[NumFloors]) :
          /\ pers.id = 1
          /\ pers.is_leaving
          /\ is_waiting(pers)
          /\ pers.wait_time >= 8
    /\ left_ids # {}
    /\ alighted_count >= 6

====
